---- MODULE Spec2Model ----
(***************************************************************************)
(* MotionMetrics recommendation backend (src/backend/app.py and            *)
(* src/backend/helperFunctions.py): the inference-time feature pipeline,   *)
(* the similarity ranker and the request handlers, as a state machine.     *)
(*                                                                         *)
(* Representation.  A one-row DataFrame is a sequence of cells             *)
(* [c |-> column name, v |-> value]; column names are the strings the code *)
(* builds with f"{column_name}_{value}".  A float cell is [nan, x] with x  *)
(* in tenths (fixed point), so the float 1.0 is F(One).  A text handed to  *)
(* word_tokenize is given by its token sequence.  A raised exception is    *)
(* the name of its class in the field "raised" ("" when nothing raised).   *)
(***************************************************************************)
EXTENDS Integers, Sequences, FiniteSets, TLC

(***************************** bounds **************************************)
NReq == 2            \* request slots of the concurrent specification
MaxShuffle == 1      \* rotations of random.shuffle that are enumerated

(************************ program constants ********************************)
TopK == 5            \* len(unique_indices) >= 5
WatchlistLimit == 20 \* filtered_recommendations[:20]
One == 10            \* the float 1.0 in tenths

(************************ sequences and strings ****************************)
Range(s) == {s[i] : i \in 1..Len(s)}

\* the sequence with its elements computed
Seq1(s) == SubSeq(s, 1, Len(s))

RECURSIVE SeqSum(_)
SeqSum(s) == IF s = <<>> THEN 0 ELSE Head(s) + SeqSum(Tail(s))

NoDup(s) == \A i, j \in 1..Len(s) : i # j => s[i] # s[j]

Take(s, n) == SubSeq(s, 1, IF n < Len(s) THEN n ELSE Len(s))

Reverse(s) == [i \in 1..Len(s) |-> s[Len(s) + 1 - i]]

Rotate(s, k) ==
  IF s = <<>> THEN s
  ELSE [i \in 1..Len(s) |-> s[((i - 1 + k) % Len(s)) + 1]]

RECURSIVE Keep(_, _)
\* [x for x in s if x in S]
Keep(s, S) ==
  IF s = <<>> THEN <<>>
  ELSE IF Head(s) \in S THEN <<Head(s)>> \o Keep(Tail(s), S)
       ELSE Keep(Tail(s), S)

RECURSIVE SortedSeq(_)
\* sorted(set of integers)
SortedSeq(S) ==
  IF S = {} THEN <<>>
  ELSE LET m == CHOOSE x \in S : \A y \in S : x <= y
       IN <<m>> \o SortedSeq(S \ {m})

RECURSIVE Distinct(_)
\* the elements of s, each once, in first-encounter order
Distinct(s) ==
  IF s = <<>> THEN <<>>
  ELSE LET d == Distinct(SubSeq(s, 1, Len(s) - 1))
       IN IF s[Len(s)] \in Range(d) THEN d ELSE Append(d, s[Len(s)])

StartsWith(s, p) == Len(s) >= Len(p) /\ SubSeq(s, 1, Len(p)) = p

StripPrefix(s, p) == SubSeq(s, Len(p) + 1, Len(s))

Contains(s, sub) ==
  \E i \in 1..(Len(s) - Len(sub) + 1) : SubSeq(s, i, i + Len(sub) - 1) = sub

DigitChars == <<"0", "1", "2", "3", "4", "5", "6", "7", "8", "9">>

IsDigit(s) ==
  /\ Len(s) > 0
  /\ \A i \in 1..Len(s) : \E d \in 1..10 : SubSeq(s, i, i) = DigitChars[d]

DigitVal(ch) == (CHOOSE d \in 1..10 : DigitChars[d] = ch) - 1

RECURSIVE ToInt(_)
\* int(s) for a string of digits
ToInt(s) ==
  IF Len(s) = 0 THEN 0
  ELSE 10 * ToInt(SubSeq(s, 1, Len(s) - 1)) + DigitVal(SubSeq(s, Len(s), Len(s)))

(****************************** floats *************************************)
F(x) == [nan |-> FALSE, x |-> x]
NaN == [nan |-> TRUE, x |-> 0]

\* round(10 * log1p(x / 10)) for x = 0..40 tenths
Log1pTable ==
  <<0, 1, 2, 3, 3, 4, 5, 5, 6, 6, 7, 7, 8, 8, 9, 9, 10, 10, 10, 11, 11,
    11, 12, 12, 12, 13, 13, 13, 13, 14, 14, 14, 14, 15, 15, 15, 15, 15,
    16, 16, 16>>

\* np.log1p
log1p(v) ==
  IF v.nan \/ v.x < 0 THEN NaN
  ELSE F(Log1pTable[(IF v.x > 40 THEN 40 ELSE v.x) + 1])

\* StandardScaler.transform of one value: (x - mean_) / scale_; NaN passes
ScalerTransform(sc, v) ==
  IF v.nan THEN NaN ELSE F(((v.x - sc.mean) * One) \div sc.scale)

(****************** persisted artifacts (pickle contents) ******************)
\* moviePickleFiles/movie_column_info.pkl
movie_column_info ==
  [all_columns |->
     <<"id", "popularity", "release_date", "vote_average",
       "original_language_en", "original_language_zh",
       "genres_comedy", "genres_drama", "production_countries_us",
       "title_keywords_lazy", "overview_keywords_dog",
       "directors_2", "cast_7", "cast_8">>,
   cast_columns |-> <<"cast_7", "cast_8">>,
   directors_columns |-> <<"directors_2">>,
   title_keywords_columns |-> <<"title_keywords_lazy">>,
   overview_keywords_columns |-> <<"overview_keywords_dog">>]

\* showPickleFiles/show_column_info.pkl
show_column_info ==
  [all_columns |->
     <<"id", "popularity", "first_air_date", "vote_average",
       "number_of_episodes", "number_of_seasons",
       "original_language_en", "created_by_5", "created_by_ann",
       "genres_comedy", "genres_drama", "production_countries_japan",
       "title_keywords_lazy", "overview_keywords_dog">>,
   title_keywords_columns |-> <<"title_keywords_lazy">>,
   overview_keywords_columns |-> <<"overview_keywords_dog">>,
   created_by_columns |-> <<"created_by_5", "created_by_ann">>,
   production_countries_columns |-> <<"production_countries_japan">>,
   original_language_columns |-> <<"original_language_en">>]

\* the fitted scalers (mean_, scale_ in tenths)
movie_sc_popularity == [mean |-> 5, scale |-> 5]
movie_sc_release_date == [mean |-> 20000, scale |-> 100]
show_sc_popularity == [mean |-> 5, scale |-> 5]
show_sc_num_episodes == [mean |-> 100, scale |-> 50]
show_sc_num_seasons == [mean |-> 20, scale |-> 10]
show_sc_release_date == [mean |-> 20100, scale |-> 100]

\* the pickle files the inference path opens
MoviePickles ==
  {"moviePickleFiles/movie_column_info.pkl",
   "moviePickleFiles/movie_sc_popularity.pkl",
   "moviePickleFiles/movie_sc_release_date.pkl",
   "moviePickleFiles/movie_svd_model.pkl",
   "moviePickleFiles/movie_embeddings.pkl",
   "moviePickleFiles/movie_ids.pkl"}

ShowPickles ==
  {"showPickleFiles/show_column_info.pkl",
   "showPickleFiles/show_sc_popularity.pkl",
   "showPickleFiles/show_sc_num_episodes.pkl",
   "showPickleFiles/show_sc_num_seasons.pkl",
   "showPickleFiles/show_sc_release_date.pkl",
   "showPickleFiles/show_svd_model.pkl",
   "showPickleFiles/show_embeddings.pkl",
   "showPickleFiles/show_ids.pkl"}

PicklePaths == MoviePickles \cup ShowPickles

(**************************** text tables **********************************)
\* str.lower() on the strings that occur
Lower(s) ==
  CASE s = "The" -> "the"
    [] s = "Lazy" -> "lazy"
    [] s = "Dog" -> "dog"
    [] s = "A" -> "a"
    [] s = "Robot" -> "robot"
    [] s = "Comedy" -> "comedy"
    [] s = "Drama" -> "drama"
    [] s = "NotAGenre" -> "notagenre"
    [] s = "US" -> "us"
    [] s = "FR" -> "fr"
    [] s = "Japan" -> "japan"
    [] s = "France" -> "france"
    [] OTHER -> s

\* stopwords.words('english'), the part that occurs
StopWords == {"the", "a", "of"}

\* str.isalnum()
IsAlnum(s) == s \notin {"!", ",", ".", "sci-fi"}

(************************** Python values **********************************)
\* a scalar JSON value: None, a string, or an integer
PyNone == [k |-> "none", s |-> "", n |-> 0]
PyStr(s) == [k |-> "str", s |-> s, n |-> 0]
PyInt(n) == [k |-> "int", s |-> "", n |-> n]

\* f"{value}"
Format(v) ==
  CASE v.k = "none" -> "None"
    [] v.k = "str" -> v.s
    [] OTHER -> ToString(v.n)

\* a JSON list of dicts, or None, or a value that is not list-shaped
ListOf(items) == [k |-> "list", items |-> items]
NoList == [k |-> "none", items |-> <<>>]
NotAList == [k |-> "other", items |-> <<>>]

\* a text given by its tokens, or None, or float('nan')
Text(toks) == [k |-> "str", toks |-> toks]
NoText == [k |-> "none", toks |-> <<>>]
NaNText == [k |-> "nan", toks |-> <<>>]

(************************ one-row DataFrames *******************************)
Cell(c, v) == [c |-> c, v |-> v]
Columns(df) == [i \in 1..Len(df) |-> df[i].c]
ColumnSet(df) == {df[i].c : i \in 1..Len(df)}
Values(df) == [i \in 1..Len(df) |-> df[i].v]

RECURSIVE DropColumns(_, _)
\* df.drop(columns=S, errors='ignore')
DropColumns(df, S) ==
  IF df = <<>> THEN <<>>
  ELSE IF Head(df).c \in S THEN DropColumns(Tail(df), S)
       ELSE <<Head(df)>> \o DropColumns(Tail(df), S)

\* df[col] of a frame that holds col once
ValueOf(df, col) == df[CHOOSE i \in 1..Len(df) : df[i].c = col].v

(************************* Feature Extractor *******************************)
RECURSIVE SortByCountDesc(_, _)
\* sorted(word_counts.items(), key=count, reverse=True): stable
SortByCountDesc(words, tokens) ==
  IF words = <<>> THEN <<>>
  ELSE LET count(w) == Cardinality({i \in 1..Len(tokens) : tokens[i] = w})
           best == CHOOSE i \in 1..Len(words) :
                     /\ \A j \in 1..Len(words) : count(words[j]) <= count(words[i])
                     /\ \A j \in 1..(i - 1) : count(words[j]) < count(words[i])
           rest == [j \in 1..(Len(words) - 1) |->
                      IF j < best THEN words[j] ELSE words[j + 1]]
       IN <<words[best]>> \o SortByCountDesc(rest, tokens)

\* the first three kept words, uncounted
extract_keywords_by_position(description) ==
  IF description.k # "str" \/ description.toks = <<>> THEN <<>>
  ELSE LET tokens == [i \in 1..Len(description.toks) |->
                         Lower(description.toks[i])]
           ok(w) == w \notin StopWords /\ IsAlnum(w)
       IN Take(Distinct(SelectSeq(tokens, ok)), 3)
extract_keywords(description) ==
  IF description.k # "str" \/ description.toks = <<>> THEN <<>>
  ELSE LET tokens == [i \in 1..Len(description.toks) |->
                         Lower(description.toks[i])]
           ok(w) == w \notin StopWords /\ IsAlnum(w)
           filtered_tokens == SelectSeq(tokens, ok)
           sorted_keywords ==
             SortByCountDesc(Distinct(filtered_tokens), filtered_tokens)
       IN Take(sorted_keywords, 3)

RECURSIVE ValuesForKey(_, _)
ValuesForKey(items, key) ==
  IF items = <<>> THEN <<>>
  ELSE IF key \in DOMAIN Head(items)
       THEN <<Head(items)[key]>> \o ValuesForKey(Tail(items), key)
       ELSE ValuesForKey(Tail(items), key)

extract_feature_values(feature_string_json, key) ==
  IF feature_string_json.k # "list" THEN <<>>
  ELSE ValuesForKey(feature_string_json.items, key)

make_lower(lst) == [i \in 1..Len(lst) |-> Lower(lst[i])]

\* str(date)[:4]
extract_release_date(date) ==
  LET date_str == IF date.k = "none" THEN "None" ELSE date.s
  IN SubSeq(date_str, 1, IF Len(date_str) < 4 THEN Len(date_str) ELSE 4)

\* language_fixes of clean_language_codes: the code a code is replaced by
language_fixes(code) ==
  CASE code = PyStr("cn") -> PyStr("zh")
    [] code = PyStr("mo") -> PyStr("ro")
    [] code = PyStr("sh") -> PyStr("sr")
    [] code = PyStr("xx") -> PyNone
    [] OTHER -> code

\* dropna alone, the codes left as they were
clean_language_codes_unmapped(df) ==
  SelectSeq(df, LAMBDA row : row.original_language
                               \notin {PyNone, PyStr("xx")})
\* df[column] = df[column].replace(language_fixes); df.dropna(subset=[column])
\* on rows [id, original_language]
clean_language_codes(df) ==
  LET replaced == [i \in 1..Len(df) |->
                     [df[i] EXCEPT !.original_language = language_fixes(@)]]
  IN SelectSeq(replaced, LAMBDA row : row.original_language # PyNone)

\* the closed genre sets of clean_and_validate_genres
movie_valid_genres ==
  {"Action", "Adventure", "Animation", "Comedy", "Crime", "Documentary",
   "Drama", "Family", "Fantasy", "History", "Horror", "Music", "Mystery",
   "Romance", "Science Fiction", "Thriller", "War", "Western", "TV Movie"}
show_valid_genres ==
  {"Action & Adventure", "Animation", "Comedy", "Crime", "Documentary",
   "Drama", "Family", "Kids", "Mystery", "News", "Reality",
   "Sci-Fi & Fantasy", "Soap", "Talk", "War & Politics", "Western"}

\* str.strip()
Strip(s) == IF s = " Comedy " THEN "Comedy" ELSE s

RECURSIVE ValidateFrom(_, _, _)
\* the loop of validate_genre_list over the elements left: an element
\* that is no str is passed over, a str outside the set ends the loop
\* with all_valid = False
ValidateFrom(genre_list, valid_genres, cleaned_genres) ==
  IF genre_list = <<>> THEN cleaned_genres
  ELSE LET genre == Head(genre_list)
       IN IF genre.k # "str"
          THEN ValidateFrom(Tail(genre_list), valid_genres, cleaned_genres)
          ELSE IF Strip(genre.s) \in valid_genres
          THEN ValidateFrom(Tail(genre_list), valid_genres,
                            Append(cleaned_genres, PyStr(Strip(genre.s))))
          ELSE <<>>

validate_genre_list(genre_list, valid_genres) ==
  IF genre_list.k # "list" THEN <<>>
  ELSE ValidateFrom(genre_list.items, valid_genres, <<>>)

\* df_copy of clean_and_validate_genres: a row is [genres |-> cell]
clean_and_validate_genres(df, content_type) ==
  LET valid_genres == IF content_type = "movie" THEN movie_valid_genres
                      ELSE show_valid_genres
  IN [i \in 1..Len(df) |->
        [df[i] EXCEPT
           !.genres = ListOf(validate_genre_list(df[i].genres, valid_genres))]]

RECURSIVE FirstDirector(_)
FirstDirector(crew) ==
  IF crew = <<>> THEN PyNone
  ELSE IF "job" \in DOMAIN Head(crew) /\ Head(crew).job = "Director"
       THEN IF "id" \in DOMAIN Head(crew) THEN PyInt(Head(crew).id) ELSE PyNone
       ELSE FirstDirector(Tail(crew))

\* the last director of the list
find_director_id_last(crew_data) ==
  IF crew_data.k \notin {"list", "liststr"} THEN PyNone
  ELSE FirstDirector(Reverse(crew_data.items))
\* crew_data is a list, the text of a list literal ("liststr"), or None,
\* '', NaN, a text literal_eval refuses, or another value: all None
find_director_id(crew_data) ==
  IF crew_data.k \notin {"list", "liststr"} THEN PyNone
  ELSE FirstDirector(crew_data.items)

(******************************* Encoder ***********************************)
\* an encoder whose column is never set
one_hot_encode_unset(column_name, value) ==
  <<Cell(column_name \o "_" \o Format(value), F(0))>>

\* the column a one-row frame gets for its single value: 1 where the cell
\* equals the value, and None == None is False
one_hot_encode_single_column(column_name, value) ==
  <<Cell(column_name \o "_" \o Format(value),
         IF value.k = "none" THEN F(0) ELSE F(One))>>

\* an encoder of the first label alone
encode_first_label(column_name, labels) ==
  IF labels = <<>> THEN <<>>
  ELSE <<Cell(column_name \o "_" \o Head(labels), F(One))>>

\* MultiLabelBinarizer on the one row: a column per distinct label, all 1
encode_multi_label_column(column_name, labels) ==
  LET classes == Distinct(labels)
  IN [i \in 1..Len(classes) |->
        Cell(column_name \o "_" \o classes[i], F(One))]

\* the ids of a cast list as the labels f"{label}" formats
IntLabels(ids) == [i \in 1..Len(ids) |-> ToString(ids[i])]

(*************************** Vocabulary Filter *****************************)
\* the values parsed out of the column names of one vocabulary group
Available(columns, prefix) ==
  {StripPrefix(columns[i], prefix) :
     i \in {j \in 1..Len(columns) : StartsWith(columns[j], prefix)}}

\* the one-hot columns of a group that the vocabulary does not hold
ColsToRemove(df, marker, prefix, available) ==
  {c \in ColumnSet(df) : Contains(c, marker)} \
    {prefix \o v : v \in available}

filter_available_keywords(df, column_info) ==
  LET available_title_keywords ==
        Available(column_info.title_keywords_columns, "title_keywords_")
      available_overview_keywords ==
        Available(column_info.overview_keywords_columns, "overview_keywords_")
      title_remove == ColsToRemove(df, "title_keywords", "title_keywords_",
                                   available_title_keywords)
      overview_remove ==
        ColsToRemove(df, "overview_keywords", "overview_keywords_",
                     available_overview_keywords)
  IN IF "title_keywords" \notin ColumnSet(df)
        /\ "overview_keywords" \notin ColumnSet(df)
     THEN DropColumns(DropColumns(df, title_remove), overview_remove)
     ELSE df

filter_available_cast_directors(df, column_info) ==
  LET Ints(S) == {ToString(ToInt(v)) : v \in {w \in S : IsDigit(w)}}
      available_cast_ids ==
        Ints(Available(column_info.cast_columns, "cast_"))
      available_director_ids ==
        Ints(Available(column_info.directors_columns, "directors_"))
      cast_remove == ColsToRemove(df, "cast", "cast_", available_cast_ids)
      director_remove ==
        ColsToRemove(df, "director", "directors_", available_director_ids)
  IN IF "cast" \notin ColumnSet(df) /\ "director_id" \notin ColumnSet(df)
     THEN DropColumns(DropColumns(df, cast_remove), director_remove)
     ELSE df

(***************************** Column Aligner ******************************)
add_missing_columns_unordered(df, column_info) ==
  LET all_required_columns == column_info.all_columns
      missing_columns ==
        SelectSeq(all_required_columns, LAMBDA col : col \notin ColumnSet(df))
      kept == SelectSeq(df, LAMBDA cell : cell.c \in Range(all_required_columns))
  IN IF ~NoDup(Columns(df))
     THEN [raised |-> "ValueError", df |-> <<>>]
     ELSE [raised |-> "",
           df |-> kept \o [i \in 1..Len(missing_columns) |->
                             Cell(missing_columns[i], F(0))]]
add_missing_columns_keep_extra(df, column_info) ==
  LET all_required_columns == column_info.all_columns
      missing_columns ==
        SelectSeq(all_required_columns, LAMBDA col : col \notin ColumnSet(df))
      df_complete == df \o [i \in 1..Len(missing_columns) |->
                              Cell(missing_columns[i], F(0))]
      extra == SelectSeq(df, LAMBDA cell :
                               cell.c \notin Range(all_required_columns))
  IN IF ~NoDup(Columns(df_complete))
     THEN [raised |-> "ValueError", df |-> <<>>]
     ELSE [raised |-> "",
           df |-> [i \in 1..Len(all_required_columns) |->
                     Cell(all_required_columns[i],
                          ValueOf(df_complete, all_required_columns[i]))]
                  \o extra]
add_missing_columns_fill_nan(df, column_info) ==
  LET all_required_columns == column_info.all_columns
  IN IF ~NoDup(Columns(df))
     THEN [raised |-> "ValueError", df |-> <<>>]
     ELSE [raised |-> "",
           df |-> [i \in 1..Len(all_required_columns) |->
                     Cell(all_required_columns[i],
                          IF all_required_columns[i] \in ColumnSet(df)
                          THEN ValueOf(df, all_required_columns[i])
                          ELSE NaN)]]
add_missing_columns_and_reorder(df, column_info) ==
  LET all_required_columns == column_info.all_columns
      current_columns == ColumnSet(df)
      missing_columns ==
        SelectSeq(all_required_columns, LAMBDA col : col \notin current_columns)
      missing_df == [i \in 1..Len(missing_columns) |->
                       Cell(missing_columns[i], F(0))]
      df_complete == df \o missing_df
  IN IF ~NoDup(Columns(df_complete))
     THEN [raised |-> "ValueError", df |-> <<>>]
     ELSE [raised |-> "",
           df |-> [i \in 1..Len(all_required_columns) |->
                     Cell(all_required_columns[i],
                          ValueOf(df_complete, all_required_columns[i]))]]

(************************* numeric coercion ********************************)
\* a JSON number (x in tenths), a numeric text, another text, or None
Num(x) == [k |-> "num", x |-> x]
NumText(x) == [k |-> "numstr", x |-> x]
BadText == [k |-> "str", x |-> 0]
NoNum == [k |-> "none", x |-> 0]

\* pd.to_numeric(value, errors='coerce')
to_numeric(value) ==
  IF value.k \in {"num", "numstr"} THEN F(value.x) ELSE NaN

\* pd.to_numeric(text, errors='coerce') of the first four characters
year_to_numeric(s) == IF IsDigit(s) THEN F(ToInt(s) * One) ELSE NaN

\* a date: a string or None
Date(s) == [k |-> "str", s |-> s]
NoDate == [k |-> "none", s |-> ""]

(*************************** pickle store **********************************)
\* open(path, "rb") and pickle.load succeed
Readable(pkl, paths) == \A p \in paths : pkl[p] = "ok"

\* what the first pickle that cannot be loaded raises: open() of a missing
\* file, pickle.load of an unreadable one
PickleErrors == {"FileNotFoundError", "UnpicklingError"}
OpenError(pkl, paths) ==
  IF \E p \in paths : pkl[p] = "missing" THEN "FileNotFoundError"
  ELSE "UnpicklingError"

(************************** movie pipeline *********************************)
MovieColsToDrop ==
  {"adult", "backdrop_path", "poster_path", "belongs_to_collection",
   "budget", "homepage", "imdb_id", "status", "tagline", "video", "revenue",
   "vote_count", "original_title", "spoken_languages",
   "production_companies", "runtime", "origin_country"}

MovieUsedKeys ==
  {"id", "title", "overview", "genres", "production_countries",
   "release_date", "popularity", "vote_average", "original_language"}

\* credits is the provider's answer to the credits request:
\* [outcome, keys, cast, crew]
getAndProcessCredits(credits) ==
  IF credits.outcome = "unreachable"
  THEN [raised |-> "ConnectionError", df |-> <<>>]
  ELSE IF ~({"id", "cast", "crew"} \subseteq credits.keys)
  THEN [raised |-> "KeyError", df |-> <<>>]
  ELSE LET cast == extract_feature_values(credits.cast, "id")
           directors == find_director_id(credits.crew)
       IN [raised |-> "",
           df |-> one_hot_encode_single_column("directors", directors)
                  \o encode_multi_label_column("cast", IntLabels(cast))]

processMovieAPI(api_response, credits, pkl) ==
  LET overview_keywords == make_lower(extract_keywords(api_response.overview))
      title_keywords == make_lower(extract_keywords(api_response.title))
      genres ==
        make_lower(extract_feature_values(api_response.genres, "name"))
      production_countries ==
        make_lower(extract_feature_values(api_response.production_countries,
                                          "iso_3166_1"))
      release_date == extract_release_date(api_response.release_date)
      popularity == to_numeric(api_response.popularity)
      vote_average == to_numeric(api_response.vote_average)
      encoded ==
        <<Cell("id", F(api_response.id)),
          Cell("popularity",
               ScalerTransform(movie_sc_popularity, log1p(log1p(popularity)))),
          Cell("release_date",
               ScalerTransform(movie_sc_release_date,
                               year_to_numeric(release_date))),
          Cell("vote_average",
               IF vote_average.nan THEN NaN ELSE F(vote_average.x \div 10))>>
        \o one_hot_encode_single_column("original_language",
                                        api_response.original_language)
        \o encode_multi_label_column("genres", genres)
        \o encode_multi_label_column("production_countries",
                                     production_countries)
        \o encode_multi_label_column("title_keywords", title_keywords)
        \o encode_multi_label_column("overview_keywords", overview_keywords)
      filtered == filter_available_keywords(encoded, movie_column_info)
      credits_raw == getAndProcessCredits(credits)
      credits_df ==
        filter_available_cast_directors(credits_raw.df, movie_column_info)
  IN CASE ~(MovieColsToDrop \subseteq api_response.keys) ->
            [raised |-> "KeyError", df |-> <<>>]
       [] ~(MovieUsedKeys \subseteq api_response.keys) ->
            [raised |-> "KeyError", df |-> <<>>]
       [] ~Readable(pkl, {"moviePickleFiles/movie_column_info.pkl",
                          "moviePickleFiles/movie_sc_popularity.pkl",
                          "moviePickleFiles/movie_sc_release_date.pkl"}) ->
            [raised |-> OpenError(pkl, MoviePickles), df |-> <<>>]
       [] ~IsDigit(release_date) ->
            [raised |-> "ValueError", df |-> <<>>]
       [] credits_raw.raised # "" ->
            [raised |-> credits_raw.raised, df |-> <<>>]
       [] OTHER ->
            add_missing_columns_and_reorder(filtered \o credits_df,
                                            movie_column_info)

(*************************** show pipeline *********************************)
ShowColsToDrop ==
  {"vote_count", "adult", "backdrop_path", "poster_path", "last_air_date",
   "homepage", "in_production", "original_name", "status", "tagline",
   "networks", "production_companies", "episode_run_time", "type",
   "languages", "spoken_languages", "origin_country", "seasons",
   "next_episode_to_air", "last_episode_to_air"}

ShowUsedKeys ==
  {"id", "name", "overview", "genres", "production_countries",
   "first_air_date", "popularity", "vote_average", "number_of_episodes",
   "number_of_seasons"}

\* first_item.get('id') or first_item.get('name')
IdOrName(item) ==
  IF "id" \in DOMAIN item /\ item.id # 0 THEN PyInt(item.id)
  ELSE IF "name" \in DOMAIN item THEN PyStr(item.name)
  ELSE PyNone

\* checkCreatedBy on the one row: [has |-> the column is kept, value]
checkCreatedBy(api_response) ==
  IF "created_by" \notin api_response.keys
  THEN [has |-> FALSE, value |-> PyNone]
  ELSE IF api_response.created_by.k = "none"
          \/ (api_response.created_by.k = "list"
              /\ api_response.created_by.items = <<>>)
  THEN [has |-> FALSE, value |-> PyNone]
  ELSE IF api_response.created_by.k = "list"
  THEN [has |-> TRUE, value |-> IdOrName(api_response.created_by.items[1])]
  ELSE [has |-> TRUE, value |-> PyStr("?")]

filter_available_additional_features(df, column_info) ==
  LET Norm(v) == IF IsDigit(v) THEN ToString(ToInt(v)) ELSE v
      available_created_by ==
        IF "created_by_columns" \in DOMAIN column_info
        THEN {Norm(v) : v \in Available(column_info.created_by_columns,
                                         "created_by_")}
        ELSE {}
      available_production_countries ==
        IF "production_countries_columns" \in DOMAIN column_info
        THEN Available(column_info.production_countries_columns,
                       "production_countries_")
        ELSE {}
      available_original_languages ==
        IF "original_language_columns" \in DOMAIN column_info
        THEN Available(column_info.original_language_columns,
                       "original_language_")
        ELSE {}
      created_remove ==
        IF available_created_by = {} THEN {}
        ELSE ColsToRemove(df, "created_by", "created_by_",
                          available_created_by)
      countries_remove ==
        IF available_production_countries = {} THEN {}
        ELSE ColsToRemove(df, "production_countries",
                          "production_countries_",
                          available_production_countries)
      language_remove ==
        IF available_original_languages = {} THEN {}
        ELSE ColsToRemove(df, "original_language", "original_language_",
                          available_original_languages)
  IN IF {"created_by", "production_countries", "original_language"}
          \cap ColumnSet(df) = {}
     THEN DropColumns(DropColumns(DropColumns(df, created_remove),
                                  countries_remove), language_remove)
     ELSE df

\* the float sklearn makes of a cell: None is NaN, a numeric text its
\* number; any other text raises
IsBadFloat(value) == value.k = "str"
sklearn_float(value) ==
  IF value.k \in {"num", "numstr"} THEN F(value.x) ELSE NaN

processShowAPI(api_response, pkl) ==
  LET created_by == checkCreatedBy(api_response)
      first_air_date ==
        year_to_numeric(extract_release_date(api_response.first_air_date))
      overview_keywords == make_lower(extract_keywords(api_response.overview))
      title_keywords == make_lower(extract_keywords(api_response.name))
      production_countries ==
        make_lower(extract_feature_values(api_response.production_countries,
                                          "name"))
      genres ==
        make_lower(extract_feature_values(api_response.genres, "name"))
      popularity == F(api_response.popularity.x)
      encoded ==
        <<Cell("id", F(api_response.id)),
          Cell("popularity",
               ScalerTransform(show_sc_popularity, log1p(log1p(popularity)))),
          Cell("first_air_date",
               ScalerTransform(show_sc_release_date, first_air_date)),
          Cell("vote_average", F(api_response.vote_average.x \div 10)),
          Cell("number_of_episodes",
               ScalerTransform(show_sc_num_episodes,
                               sklearn_float(api_response.number_of_episodes))),
          Cell("number_of_seasons",
               ScalerTransform(show_sc_num_seasons,
                               sklearn_float(api_response.number_of_seasons)))>>
        \o (IF "original_language" \in api_response.keys
            THEN one_hot_encode_single_column("original_language",
                                              api_response.original_language)
            ELSE <<>>)
        \o (IF created_by.has
            THEN one_hot_encode_single_column("created_by", created_by.value)
            ELSE <<>>)
        \o encode_multi_label_column("genres", genres)
        \o encode_multi_label_column("production_countries",
                                     production_countries)
        \o encode_multi_label_column("overview_keywords", overview_keywords)
        \o encode_multi_label_column("title_keywords", title_keywords)
      filtered ==
        filter_available_additional_features(
          filter_available_keywords(encoded, show_column_info),
          show_column_info)
  IN CASE ~(ShowColsToDrop \subseteq api_response.keys) ->
            [raised |-> "KeyError", df |-> <<>>]
       [] ~(ShowUsedKeys \subseteq api_response.keys) ->
            [raised |-> "KeyError", df |-> <<>>]
       [] ~Readable(pkl, {"showPickleFiles/show_sc_popularity.pkl",
                          "showPickleFiles/show_sc_num_episodes.pkl",
                          "showPickleFiles/show_sc_num_seasons.pkl",
                          "showPickleFiles/show_sc_release_date.pkl"}) ->
            [raised |-> OpenError(pkl, ShowPickles), df |-> <<>>]
       [] api_response.popularity.k # "num" ->
            [raised |-> "TypeError", df |-> <<>>]
       [] IsBadFloat(api_response.number_of_episodes)
          \/ IsBadFloat(api_response.number_of_seasons) ->
            [raised |-> "ValueError", df |-> <<>>]
       [] api_response.vote_average.k # "num" ->
            [raised |-> "TypeError", df |-> <<>>]
       [] ~Readable(pkl, {"showPickleFiles/show_column_info.pkl"}) ->
            [raised |-> OpenError(pkl, ShowPickles), df |-> <<>>]
       [] OTHER -> add_missing_columns_and_reorder(filtered, show_column_info)

(************************ Embedding Projector ******************************)
\* moviePickleFiles/movie_svd_model.pkl: components_, a row per latent
\* dimension and a weight per feature column (all_columns without id)
movie_svd_model ==
  [components |->
     <<<<0, 0, 1, 0, 0, 3, -3, 0, 1, 0, 0, 0, 0>>,
       <<1, 0, 0, 0, 0, 0, 0, 1, 0, 1, 0, 3, -3>>>>]

\* showPickleFiles/show_svd_model.pkl
show_svd_model ==
  [components |->
     <<<<0, 0, 1, 0, 0, 0, 3, -3, 0, 0, 0, 1, 0>>,
       <<1, 0, 0, 0, 0, 0, 0, 0, 3, -3, 1, 0, 1>>>>]

Dot(a, b) == SeqSum([i \in 1..Len(a) |-> a[i] * b[i]])

\* svd_model.transform(query_df): sklearn refuses a NaN and a row whose
\* length is not the fitted number of features
svd_transform(svd_model, row) ==
  IF \E i \in 1..Len(row) : row[i].nan
  THEN [raised |-> "ValueError", embedding |-> <<>>]
  ELSE IF \E k \in 1..Len(svd_model.components) :
            Len(svd_model.components[k]) # Len(row)
  THEN [raised |-> "ValueError", embedding |-> <<>>]
  ELSE [raised |-> "",
        embedding |->
          Seq1([k \in 1..Len(svd_model.components) |->
                  Dot(svd_model.components[k],
                      [i \in 1..Len(row) |-> row[i].x])])]

(************************** Similarity Ranker ******************************)
\* the corpus: embedding rows and the parallel id list (rows 1..n here are
\* iloc 0..n-1 in the code)
CircleRows ==
  <<<<2, 0>>, <<2, 1>>, <<1, 1>>, <<1, 2>>, <<0, 2>>, <<-1, 2>>, <<-1, 1>>,
    <<-2, 1>>, <<-2, 0>>, <<-2, -1>>, <<-1, -1>>, <<-1, -2>>, <<0, -2>>,
    <<1, -2>>, <<1, -1>>, <<2, -1>>>>

movie_embeddings == CircleRows \o <<<<-3, -3>>, <<4, 2>>>>
movie_ids == <<1, 2, 3, 4, 5, 6, 7, 8, 9, 10, 11, 12, 13, 14, 15, 16, 1, 2>>

show_embeddings == CircleRows \o <<<<3, -3>>, <<0, 0>>>>
show_ids ==
  <<10, 11, 12, 13, 14, 15, 16, 17, 18, 19, 20, 21, 22, 23, 24, 25, 10, 26>>

Sign(x) == IF x > 0 THEN 1 ELSE IF x < 0 THEN -1 ELSE 0

\* cosine_similarity(query, row) up to the positive factor 1/|query|, as
\* the fraction sign(d) * d^2 / |row|^2 (which orders as d / |row| does);
\* a zero row or a zero query has similarity 0
CosineSimilarity(q, row) ==
  LET d == Dot(q, row)
      n == Dot(row, row)
  IN IF n = 0 THEN [s |-> 0, m |-> 1] ELSE [s |-> Sign(d) * d * d, m |-> n]

\* cosine_similarity(query_embedding, embeddings).flatten()
Similarities(q, embeddings) ==
  Seq1([i \in 1..Len(embeddings) |-> CosineSimilarity(q, embeddings[i])])

SimLess(a, b) == a.s * b.m < b.s * a.m

\* row i comes before row j in similarities.argsort()[::-1]: the more
\* similar first; rows of equal similarity come in the order the build's
\* sort leaves them in (ties)
BeforeLeastFirst(similarities, i, j, ties) ==
  \/ SimLess(similarities[i], similarities[j])
  \/ /\ ~SimLess(similarities[j], similarities[i])
     /\ IF ties = "index_desc" THEN i > j ELSE i < j
Before(similarities, i, j, ties) ==
  \/ SimLess(similarities[j], similarities[i])
  \/ /\ ~SimLess(similarities[i], similarities[j])
     /\ IF ties = "index_desc" THEN i > j ELSE i < j

RECURSIVE InsertIndex(_, _, _, _)
InsertIndex(similarities, sorted, i, ties) ==
  IF sorted = <<>> THEN <<i>>
  ELSE IF Before(similarities, i, Head(sorted), ties) THEN <<i>> \o sorted
  ELSE <<Head(sorted)>> \o InsertIndex(similarities, Tail(sorted), i, ties)

RECURSIVE ArgsortDesc(_, _, _)
\* similarities.argsort()[::-1] of the first n rows
ArgsortDesc(similarities, n, ties) ==
  IF n = 0 THEN <<>>
  ELSE InsertIndex(similarities, ArgsortDesc(similarities, n - 1, ties), n,
                   ties)

sorted_indices_of(q, embeddings, ties) ==
  ArgsortDesc(Similarities(q, embeddings), Len(embeddings), ties)

\* the loop of getSimilarMovies, one iteration: st = [pos, seen_ids,
\* unique_indices, done]
MovieLoopBodyNoSeen(st, sorted_indices, ids, current_movie_id) ==
  LET idx == sorted_indices[st.pos]
      movie_id == ids[idx]
      take == movie_id # current_movie_id
      unique_indices ==
        IF take THEN Append(st.unique_indices, idx) ELSE st.unique_indices
  IN [pos |-> st.pos + 1,
      seen_ids |-> IF take THEN st.seen_ids \cup {movie_id} ELSE st.seen_ids,
      unique_indices |-> unique_indices,
      done |-> Len(unique_indices) >= TopK \/ st.pos + 1 > Len(sorted_indices)]
MovieLoopBody(st, sorted_indices, ids, current_movie_id) ==
  LET idx == sorted_indices[st.pos]
      movie_id == ids[idx]
      take == movie_id \notin st.seen_ids /\ movie_id # current_movie_id
      unique_indices ==
        IF take THEN Append(st.unique_indices, idx) ELSE st.unique_indices
  IN [pos |-> st.pos + 1,
      seen_ids |-> IF take THEN st.seen_ids \cup {movie_id} ELSE st.seen_ids,
      unique_indices |-> unique_indices,
      done |-> Len(unique_indices) >= TopK \/ st.pos + 1 > Len(sorted_indices)]

\* the loop of getSimilarShows, one iteration
ShowLoopBody(st, sorted_indices, ids, current_show_id) ==
  LET idx == sorted_indices[st.pos]
      show_id == ids[idx]
      take == show_id \notin st.seen_ids
      unique_indices ==
        IF take THEN Append(st.unique_indices, idx) ELSE st.unique_indices
  IN [pos |-> st.pos + 1,
      seen_ids |-> IF take THEN st.seen_ids \cup {show_id} ELSE st.seen_ids,
      unique_indices |-> unique_indices,
      done |-> Len(unique_indices) >= TopK \/ st.pos + 1 > Len(sorted_indices)]

LoopBody(type, st, sorted_indices, ids, current_id) ==
  IF type = "movie" THEN MovieLoopBody(st, sorted_indices, ids, current_id)
  ELSE ShowLoopBody(st, sorted_indices, ids, current_id)

\* the state before the first iteration; an empty corpus never enters
LoopStart(sorted_indices) ==
  [pos |-> 1, seen_ids |-> {}, unique_indices |-> <<>>,
   done |-> sorted_indices = <<>>]

RECURSIVE RunLoop(_, _, _, _, _)
RunLoop(type, st, sorted_indices, ids, current_id) ==
  IF st.done THEN st
  ELSE RunLoop(type, LoopBody(type, st, sorted_indices, ids, current_id),
               sorted_indices, ids, current_id)

\* ids.iloc[unique_indices].tolist()
IdsAt(ids, unique_indices) ==
  [i \in 1..Len(unique_indices) |-> ids[unique_indices[i]]]

(********************* getSimilarMovies / getSimilarShows ******************)
ModelPickles(type) ==
  IF type = "movie"
  THEN {"moviePickleFiles/movie_svd_model.pkl",
        "moviePickleFiles/movie_embeddings.pkl",
        "moviePickleFiles/movie_ids.pkl"}
  ELSE {"showPickleFiles/show_svd_model.pkl",
        "showPickleFiles/show_embeddings.pkl",
        "showPickleFiles/show_ids.pkl"}

SvdModel(type) == IF type = "movie" THEN movie_svd_model ELSE show_svd_model
Embeddings(type) == IF type = "movie" THEN movie_embeddings ELSE show_embeddings
CorpusIdsOfShows(type) == show_ids
CorpusIds(type) == IF type = "movie" THEN movie_ids ELSE show_ids
ColumnInfo(type) == IF type = "movie" THEN movie_column_info ELSE show_column_info

\* processMovieAPI / processShowAPI of the entry's own type
Process(type, api_response, credits, pkl) ==
  IF type = "movie" THEN processMovieAPI(api_response, credits, pkl)
  ELSE processShowAPI(api_response, pkl)

\* query_df['id'], drop('id'), the projector and the argsort, given the
\* frame the pipeline returned
Project(type, query, ties) ==
  LET none == [raised |-> "", df |-> <<>>, current_id |-> 0, vector |-> <<>>,
               sorted_indices |-> <<>>]
      vector == Values(DropColumns(query.df, {"id"}))
      projected == svd_transform(SvdModel(type), vector)
  IN CASE query.raised # "" -> [none EXCEPT !.raised = query.raised]
       [] "id" \notin ColumnSet(query.df) ->
            [none EXCEPT !.raised = "KeyError", !.df = query.df]
       [] projected.raised # "" ->
            [none EXCEPT !.raised = projected.raised, !.df = query.df,
                         !.vector = vector]
       [] OTHER ->
            [raised |-> "", df |-> query.df,
             current_id |-> ValueOf(query.df, "id").x,
             vector |-> vector,
             sorted_indices |->
               sorted_indices_of(projected.embedding, Embeddings(type), ties)]

\* everything before the loop: the pickles, then the pipeline and Project
Prepare(type, api_response, credits, pkl, ties) ==
  IF ~Readable(pkl, ModelPickles(type))
  THEN [raised |-> OpenError(pkl, ModelPickles(type)), df |-> <<>>,
        current_id |-> 0,
        vector |-> <<>>, sorted_indices |-> <<>>]
  ELSE Project(type, Process(type, api_response, credits, pkl), ties)

\* the loop and the return, given what Prepare left
Ranked(type, p) ==
  IF p.raised # "" THEN [raised |-> p.raised, list |-> <<>>]
  ELSE [raised |-> "",
        list |-> IdsAt(CorpusIds(type),
                       RunLoop(type, LoopStart(p.sorted_indices),
                               p.sorted_indices, CorpusIds(type),
                               p.current_id).unique_indices)]

\* the whole of getSimilarMovies / getSimilarShows
getSimilar(type, api_response, credits, pkl, ties) ==
  Ranked(type, Prepare(type, api_response, credits, pkl, ties))

(*********************** metadata provider answers *************************)
\* what requests.get(...) gives: outcome "ok" (response.ok, a details
\* body), "http_error" (a non-success status with the provider's error
\* body) or "unreachable" (requests.get raises)
ErrorBody == [keys |-> {"success", "status_code", "status_message"}]

Comedy == [id |-> 35, name |-> "Comedy"]
Drama == [id |-> 18, name |-> "Drama"]
NotAGenre == [id |-> 0, name |-> "NotAGenre"]
Nameless == [id |-> 99]
US == [iso_3166_1 |-> "US", name |-> "United States of America"]
FR == [iso_3166_1 |-> "FR", name |-> "France"]
Japan == [iso_3166_1 |-> "JP", name |-> "Japan"]

\* a movie details body whose every value is in the vocabulary
MovieBase(id) ==
  [keys |-> MovieColsToDrop \cup MovieUsedKeys,
   id |-> id,
   title |-> Text(<<"The", "Lazy", "Dog">>),
   overview |-> Text(<<"the", "lazy", "lazy", "dog", "ran">>),
   genres |-> ListOf(<<Comedy>>),
   production_countries |-> ListOf(<<US>>),
   release_date |-> Date("2020-05-01"),
   popularity |-> Num(10),
   vote_average |-> Num(75),
   original_language |-> PyStr("en")]

\* a movie details body with nothing the vocabulary knows
MovieBare(id) ==
  [keys |-> MovieColsToDrop \cup MovieUsedKeys,
   id |-> id,
   title |-> Text(<<"Robot", "!">>),
   overview |-> Text(<<"robot", "ran">>),
   genres |-> ListOf(<<NotAGenre>>),
   production_countries |-> ListOf(<<FR>>),
   release_date |-> Date("1999-12-31"),
   popularity |-> Num(0),
   vote_average |-> Num(0),
   original_language |-> PyStr("xx")]

\* the bodies that differ from b in one field
MovieVariants(b) ==
  {b}
  \cup {[b EXCEPT !.keys = @ \ {k}] : k \in {"tagline", "overview"}}
  \cup {[b EXCEPT !.title = t] :
          t \in {NoText, Text(<<>>), Text(<<"Robot", "robot", "Lazy">>)}}
  \cup {[b EXCEPT !.overview = t] :
          t \in {NoText, Text(<<"robot", ",", "Dog", "dog">>)}}
  \cup {[b EXCEPT !.genres = g] :
          g \in {NoList, NotAList, ListOf(<<Drama>>),
                 ListOf(<<Comedy, Drama>>), ListOf(<<Comedy, NotAGenre>>),
                 ListOf(<<Nameless, Drama, Drama>>)}}
  \cup {[b EXCEPT !.production_countries = c] :
          c \in {NoList, ListOf(<<US, FR>>)}}
  \cup {[b EXCEPT !.release_date = d] :
          d \in {NoDate, Date(""), Date("2031")}}
  \cup {[b EXCEPT !.popularity = x] :
          x \in {Num(30), NumText(20), BadText, NoNum}}
  \cup {[b EXCEPT !.vote_average = x] : x \in {Num(20), NoNum}}
  \cup {[b EXCEPT !.original_language = l] :
          l \in {PyStr("zh"), PyStr("cn"), PyNone}}

\* the ids a single-item request asks about: twice in both corpora, once
\* in the movie corpus, once in the show corpus, in neither
QueryIds == {1, 10, 5, 20, 40}

MovieBodies ==
  UNION {MovieVariants(MovieBase(id)) \cup MovieVariants(MovieBare(id)) :
           id \in QueryIds}

\* credits bodies
Person(id, job) == [id |-> id, job |-> job, name |-> "n"]
CreditsOf(cast, crew) ==
  [outcome |-> "ok", keys |-> {"id", "cast", "crew"},
   cast |-> cast, crew |-> crew]
CreditsKnown ==
  CreditsOf(ListOf(<<[id |-> 7]>>),
            ListOf(<<Person(1, "Producer"), Person(2, "Director"),
                     Person(3, "Director")>>))
CreditsOther ==
  CreditsOf(ListOf(<<[id |-> 8], [id |-> 99], [id |-> 8]>>),
            ListOf(<<Person(9, "Director")>>))
CreditsEmpty == CreditsOf(ListOf(<<>>), ListOf(<<>>))
CreditsMalformed == CreditsOf(NoList, NotAList)
CreditsError ==
  [outcome |-> "http_error", keys |-> ErrorBody.keys,
   cast |-> NoList, crew |-> NoList]
CreditsUnreachable ==
  [outcome |-> "unreachable", keys |-> {}, cast |-> NoList, crew |-> NoList]

CreditsAnswers ==
  {CreditsKnown, CreditsOther, CreditsEmpty, CreditsMalformed, CreditsError,
   CreditsUnreachable}

\* a show details body whose every value is in the vocabulary
ShowBase(id) ==
  [keys |-> ShowColsToDrop \cup ShowUsedKeys
            \cup {"original_language", "created_by"},
   id |-> id,
   name |-> Text(<<"Lazy">>),
   overview |-> Text(<<"A", "dog", "!">>),
   genres |-> ListOf(<<Drama>>),
   production_countries |-> ListOf(<<Japan>>),
   first_air_date |-> Date("2015-04-01"),
   popularity |-> Num(10),
   vote_average |-> Num(80),
   number_of_episodes |-> Num(120),
   number_of_seasons |-> Num(20),
   original_language |-> PyStr("en"),
   created_by |-> ListOf(<<[id |-> 5, name |-> "ann"],
                           [id |-> 6, name |-> "bob"]>>)]

\* a show details body with nothing the vocabulary knows
ShowBare(id) ==
  [keys |-> ShowColsToDrop \cup ShowUsedKeys
            \cup {"original_language", "created_by"},
   id |-> id,
   name |-> Text(<<"Robot">>),
   overview |-> Text(<<>>),
   genres |-> ListOf(<<NotAGenre>>),
   production_countries |-> ListOf(<<FR>>),
   first_air_date |-> Date("1990-01-01"),
   popularity |-> Num(0),
   vote_average |-> Num(0),
   number_of_episodes |-> Num(0),
   number_of_seasons |-> Num(0),
   original_language |-> PyStr("xx"),
   created_by |-> ListOf(<<>>)]

ShowVariants(b) ==
  {b}
  \cup {[b EXCEPT !.keys = @ \ {k}] :
          k \in {"tagline", "created_by", "original_language"}}
  \cup {[b EXCEPT !.name = t] : t \in {NoText, Text(<<"Robot", "Lazy">>)}}
  \cup {[b EXCEPT !.genres = g] :
          g \in {NoList, ListOf(<<Comedy>>), ListOf(<<Comedy, NotAGenre>>)}}
  \cup {[b EXCEPT !.production_countries = c] :
          c \in {NoList, ListOf(<<Japan, FR>>)}}
  \cup {[b EXCEPT !.first_air_date = d] : d \in {NoDate, Date("")}}
  \cup {[b EXCEPT !.popularity = x] : x \in {Num(30), NoNum}}
  \cup {[b EXCEPT !.vote_average = x] : x \in {Num(20), NoNum}}
  \cup {[b EXCEPT !.number_of_episodes = x] : x \in {NoNum, BadText}}
  \cup {[b EXCEPT !.original_language = l] : l \in {PyStr("en"), PyNone}}
  \cup {[b EXCEPT !.created_by = c] :
          c \in {NoList,
                 ListOf(<<[id |-> 0, name |-> "ann"], [id |-> 5, name |-> "x"]>>),
                 ListOf(<<[name |-> "ann"]>>),
                 ListOf(<<[id |-> 6, name |-> "bob"], [id |-> 5, name |-> "ann"]>>)}}

ShowBodies ==
  UNION {ShowVariants(ShowBase(id)) \cup ShowVariants(ShowBare(id)) :
           id \in QueryIds}

Answer(outcome, body) == [outcome |-> outcome, body |-> body]

\* every answer to a details request of the given type
DetailsAnswers(type) ==
  {Answer("ok", b) : b \in IF type = "movie" THEN MovieBodies ELSE ShowBodies}
  \cup {Answer("http_error", ErrorBody), Answer("unreachable", ErrorBody)}

\* the (details, credits) answers a single-item movie request can meet
MovieInputs ==
  {<<a, CreditsKnown>> : a \in DetailsAnswers("movie")}
  \cup {<<Answer("ok", b), c>> :
          b \in {MovieBase(id) : id \in QueryIds}
                \cup {MovieBare(id) : id \in QueryIds},
          c \in CreditsAnswers}

ShowInputs == {<<a, CreditsEmpty>> : a \in DetailsAnswers("tv")}

(****************************** watchlists *********************************)
Entry(id, type) == [id |-> id, type |-> type]

\* the watchlists a request can carry are the subsequences of this one
WatchlistPool ==
  <<Entry(PyInt(30), "movie"), Entry(PyInt(31), "movie"),
    Entry(PyStr("33"), "tv"),
    Entry(PyInt(34), "tv"), Entry(PyStr("3"), "movie"),
    Entry(PyInt(35), "movie"), Entry(PyInt(36), "person"),
    Entry(PyInt(37), "tv"), Entry(PyInt(5), "tv")>>

SubSeqBy(s, keep) == 
  LET idx == SortedSeq(keep) IN [i \in 1..Len(idx) |-> s[idx[i]]]

Watchlists(pool) == {SubSeqBy(pool, keep) : keep \in SUBSET (1..Len(pool))}

\* what the provider holds for the ids of the pool
CatalogMovie(n) ==
  CASE n = 30 -> <<MovieBase(30), CreditsKnown>>
    [] n = 31 -> <<[MovieBase(31) EXCEPT !.genres = ListOf(<<Drama>>)],
                   CreditsOther>>
    [] n = 3 -> <<[MovieBase(3) EXCEPT !.genres = ListOf(<<Drama>>)],
                  CreditsKnown>>
    [] OTHER -> <<[MovieBase(n) EXCEPT !.release_date = NoDate],
                  CreditsKnown>>

CatalogShow(n) ==
  CASE n = 33 -> [ShowBase(33) EXCEPT !.genres = ListOf(<<Comedy>>)]
    [] n = 37 -> [ShowBase(37) EXCEPT
                    !.genres = ListOf(<<Comedy>>),
                    !.created_by = ListOf(<<[name |-> "ann"]>>)]
    [] OTHER ->
         [ShowBase(n) EXCEPT
            !.created_by = ListOf(<<[id |-> 0, name |-> "ann"]>>)]

(******************************* state *************************************)
VARIABLES
  pkl,   \* the pickle files on disk: path -> "ok" | "missing" | "corrupt"
  ties,  \* how this build's argsort orders rows of equal similarity
  req    \* per request slot, the handler's local variables and response

vars == <<pkl, ties, req>>

NoResponse ==
  [http |-> 0, status |-> "", error |-> "", recommendations |-> <<>>,
   total_processed |-> 0, total_recommendations |-> 0]

\* an unhandled exception: Flask answers 500
HttpSwallowed(error) ==
  [NoResponse EXCEPT !.http = 200, !.status = "success"]
Http500(error) == [NoResponse EXCEPT !.http = 500, !.error = error]

Idle ==
  [pc |-> "idle", endpoint |-> "", type |-> "",
   details |-> Answer("none", ErrorBody), credits |-> CreditsEmpty,
   df |-> <<>>, current_id |-> 0, vector |-> <<>>, sorted_indices |-> <<>>,
   st |-> LoopStart(<<>>),
   watchlist |-> <<>>, i |-> 1, all_recommendations |-> <<>>, log |-> <<>>,
   filtered_recommendations |-> <<>>,
   response |-> NoResponse]

\* the stores a process can find: every file readable, or one of these
\* missing or unreadable
AllReadable == [p \in PicklePaths |-> "ok"]
Without(q, how) == [p \in PicklePaths |-> IF p = q THEN how ELSE "ok"]
PklStates ==
  {AllReadable,
   Without("moviePickleFiles/movie_column_info.pkl", "missing"),
   Without("moviePickleFiles/movie_ids.pkl", "corrupt"),
   Without("showPickleFiles/show_svd_model.pkl", "missing"),
   Without("showPickleFiles/show_sc_num_seasons.pkl", "missing")}

InitWith(slots, stores) ==
  /\ pkl \in stores
  /\ ties \in {"index_desc", "index_asc"}
  /\ req = [r \in slots |-> Idle]

\* the store after `with open(path, "rb") as f: pickle.load(f)`
PickleStoreTruncated(store, paths) ==
  [p \in DOMAIN store |-> IF p \in paths THEN "corrupt" ELSE store[p]]
PickleStoreAfter(store, paths) == store

\* the tie orders one call of argsort can leave: the build's own
TieChoicesAny(t) == {"index_desc", "index_asc"}
TieChoices(t) == {t}

(************************ single-item handlers *****************************)
\* movie_clicked up to requests.get
MovieClicked(r, inputs) ==
  /\ req[r].pc = "idle"
  /\ \E in \in inputs :
       req' = [req EXCEPT ![r] =
                 [Idle EXCEPT !.pc = "fetched", !.endpoint = "movie_clicked",
                              !.type = "movie", !.details = in[1],
                              !.credits = in[2]]]
  /\ UNCHANGED <<pkl, ties>>

\* show_clicked up to requests.get
ShowClicked(r, inputs) ==
  /\ req[r].pc = "idle"
  /\ \E in \in inputs :
       req' = [req EXCEPT ![r] =
                 [Idle EXCEPT !.pc = "fetched", !.endpoint = "show_clicked",
                              !.type = "tv", !.details = in[1],
                              !.credits = in[2]]]
  /\ UNCHANGED <<pkl, ties>>

\* movie_recommendations: get_movie_details_with_recommendations is
\* defined nowhere, the call raises NameError
MovieRecommendations(r) ==
  /\ req[r].pc = "idle"
  /\ req' = [req EXCEPT ![r] =
               [Idle EXCEPT !.pc = "done",
                            !.endpoint = "movie_recommendations",
                            !.type = "movie",
                            !.response = Http500("NameError")]]
  /\ UNCHANGED <<pkl, ties>>

\* the pickles a call of getSimilarMovies / getSimilarShows opens
OpenedPickles(type) == IF type = "movie" THEN MoviePickles ELSE ShowPickles

\* getSimilarMovies / getSimilarShows up to the loop
PrepareStep(r) ==
  /\ req[r].pc = "fetched"
  /\ \E t \in TieChoices(ties) :
     \E p \in {Prepare(req[r].type, req[r].details.body, req[r].credits,
                        pkl, t)} :
       LET me == req[r]
       IN req' = [req EXCEPT ![r] =
            IF me.details.outcome = "unreachable"
            THEN [me EXCEPT !.pc = "done",
                            !.response = Http500("ConnectionError")]
            ELSE IF p.raised # ""
            THEN [me EXCEPT !.pc = "done", !.df = p.df, !.vector = p.vector,
                            !.response = Http500(p.raised)]
            ELSE [me EXCEPT !.pc = "loop", !.df = p.df,
                            !.current_id = p.current_id,
                            !.vector = p.vector,
                            !.sorted_indices = p.sorted_indices,
                            !.st = LoopStart(p.sorted_indices)]]
  /\ pkl' = PickleStoreAfter(pkl, OpenedPickles(req[r].type))
  /\ UNCHANGED ties

\* one iteration of `for idx in sorted_indices`
LoopStep(r) ==
  /\ req[r].pc = "loop"
  /\ ~req[r].st.done
  /\ req' = [req EXCEPT ![r].st =
               LoopBody(req[r].type, @, req[r].sorted_indices,
                        CorpusIds(req[r].type), req[r].current_id)]
  /\ UNCHANGED <<pkl, ties>>

\* return ids.iloc[unique_indices].tolist() and the handler's jsonify
ReturnStep(r) ==
  /\ req[r].pc = "loop"
  /\ req[r].st.done
  /\ LET list == IdsAt(CorpusIds(req[r].type), req[r].st.unique_indices)
     IN req' = [req EXCEPT ![r].pc = "done",
                           ![r].response =
                             [NoResponse EXCEPT !.http = 200,
                                                !.status = "success",
                                                !.recommendations = list]]
  /\ UNCHANGED <<pkl, ties>>

(*************************** watchlist handler *****************************)
\* the outcomes the details request of one entry can have
\* the entries of the pool whose request is also enumerated as failing
Unsteady == {PyInt(30), PyStr("33"), PyInt(37)}

FetchOutcomes(entry) ==
  IF entry.type \notin {"movie", "tv"} THEN {"none"}
  ELSE IF ~IsDigit(Format(entry.id)) THEN {"http_error", "unreachable"}
  ELSE IF entry.id \in Unsteady THEN {"ok", "http_error", "unreachable"}
  ELSE {"ok"}

\* the provider's (details, credits) for an entry whose request is answered
CatalogAnswer(entry) ==
  IF entry.type = "movie" THEN CatalogMovie(ToInt(Format(entry.id)))
  ELSE <<CatalogShow(ToInt(Format(entry.id))), CreditsEmpty>>

\* what the try block leaves, given what getSimilarMovies / getSimilarShows
\* returned or raised
Tried(similar) ==
  [raised |-> similar.raised, extended |-> similar.raised = "",
   list |-> similar.list]

\* getSimilarMovies / getSimilarShows of the entry's record
SimilarOf(entry, answer, store, t) ==
  getSimilar(entry.type, answer[1], answer[2], store, t)

\* the body of the try block for one entry: [raised, extended, list]
TryEntry(entry, outcome, store, t) ==
  CASE entry.type \notin {"movie", "tv"} ->
         [raised |-> "", extended |-> FALSE, list |-> <<>>]
    [] outcome = "unreachable" ->
         [raised |-> "ConnectionError", extended |-> FALSE, list |-> <<>>]
    [] outcome = "http_error" ->
         [raised |-> "", extended |-> FALSE, list |-> <<>>]
    [] OTHER -> Tried(SimilarOf(entry, CatalogAnswer(entry), store, t))

\* the handler's locals after one entry; `except Exception: continue`
AfterEntryNoExcept(me, result) ==
  IF result.raised # ""
  THEN [me EXCEPT !.pc = "done", !.response = Http500(result.raised)]
  ELSE [me EXCEPT !.i = @ + 1,
                  !.all_recommendations = @ \o result.list,
                  !.log = Append(@, [extended |-> result.extended,
                                     raised |-> result.raised,
                                     list |-> result.list])]
AfterEntry(me, result) ==
  [me EXCEPT !.i = @ + 1,
             !.all_recommendations =
               IF result.raised = "" THEN @ \o result.list ELSE @,
             !.log = Append(@, [extended |-> result.extended,
                                raised |-> result.raised,
                                list |-> IF result.raised = ""
                                         THEN result.list ELSE <<>>])]

\* str(rec_id) in watchlist_ids
InWatchlistNoStr(rec_id, watchlist_ids) == FALSE
InWatchlist(rec_id, watchlist_ids) == ToString(rec_id) \in watchlist_ids

\* the id texts of the movie entries alone
WatchlistIdsOfMovies(watchlist) ==
  {Format(watchlist[i].id) :
     i \in {j \in 1..Len(watchlist) : watchlist[j].type = "movie"}}
\* {str(item.get('id')) for item in watchlist_items}
WatchlistIds(watchlist) ==
  {Format(watchlist[i].id) : i \in 1..Len(watchlist)}

\* the orders random.shuffle can leave that are enumerated
ShuffleOutcomes(s) ==
  {Rotate(s, k) : k \in 0..MaxShuffle}
  \cup {Reverse(Rotate(s, k)) : k \in 0..MaxShuffle}

\* get_watchlist_recommendations up to the loop
WatchlistReceive(r, pool) ==
  /\ req[r].pc = "idle"
  /\ \E wl \in Watchlists(pool) :
       req' = [req EXCEPT ![r] =
         IF wl = <<>>
         THEN [Idle EXCEPT !.pc = "done", !.endpoint = "watchlist",
                           !.response =
                             [NoResponse EXCEPT !.http = 200,
                                                !.status = "error"]]
         ELSE [Idle EXCEPT !.pc = "watchlist", !.endpoint = "watchlist",
                           !.watchlist = wl]]
  /\ UNCHANGED <<pkl, ties>>

\* one iteration of `for item in watchlist_items`
WatchlistEntry(r) ==
  /\ req[r].pc = "watchlist"
  /\ req[r].i <= Len(req[r].watchlist)
  /\ LET entry == req[r].watchlist[req[r].i]
     IN /\ \E outcome \in FetchOutcomes(entry), t \in TieChoices(ties) :
             req' = [req EXCEPT ![r] =
                       AfterEntry(@, TryEntry(entry, outcome, pkl, t))]
        /\ pkl' = IF entry.type \in {"movie", "tv"}
                  THEN PickleStoreAfter(pkl, OpenedPickles(entry.type))
                  ELSE pkl
  /\ UNCHANGED ties

\* the stages with the cut at 20 made before the watchlist ids are removed
WatchlistRespondCutFirst(r) ==
  /\ req[r].pc = "watchlist"
  /\ req[r].i > Len(req[r].watchlist)
  /\ LET me == req[r]
         watchlist_ids == WatchlistIds(me.watchlist)
         unique_recommendations == SortedSeq(Range(me.all_recommendations))
         filtered_recommendations ==
           SelectSeq(Take(unique_recommendations, WatchlistLimit),
                     LAMBDA rec_id : ~InWatchlist(rec_id, watchlist_ids))
     IN \E shuffled \in ShuffleOutcomes(filtered_recommendations) :
          req' = [req EXCEPT ![r] =
               [me EXCEPT
                  !.pc = "done",
                  !.filtered_recommendations = shuffled,
                  !.response =
                    [NoResponse EXCEPT
                       !.http = 200, !.status = "success",
                       !.recommendations = shuffled,
                       !.total_processed = Len(me.watchlist),
                       !.total_recommendations = Len(shuffled)]]]
  /\ UNCHANGED <<pkl, ties>>

\* dedup, filter, shuffle, truncate, jsonify
WatchlistRespond(r) ==
  /\ req[r].pc = "watchlist"
  /\ req[r].i > Len(req[r].watchlist)
  /\ LET me == req[r]
         watchlist_ids == WatchlistIds(me.watchlist)
         unique_recommendations == SortedSeq(Range(me.all_recommendations))
         filtered_recommendations ==
           SelectSeq(unique_recommendations,
                     LAMBDA rec_id : ~InWatchlist(rec_id, watchlist_ids))
     IN \E shuffled \in ShuffleOutcomes(filtered_recommendations) :
          LET limited_recommendations == Take(shuffled, WatchlistLimit)
          IN req' = [req EXCEPT ![r] =
               [me EXCEPT
                  !.pc = "done",
                  !.filtered_recommendations = shuffled,
                  !.response =
                    [NoResponse EXCEPT
                       !.http = 200, !.status = "success",
                       !.recommendations = limited_recommendations,
                       !.total_processed = Len(me.watchlist),
                       !.total_recommendations =
                         Len(limited_recommendations)]]]
  /\ UNCHANGED <<pkl, ties>>

(**************************** specifications *******************************)
\* the single-item endpoints, one request, every input
Init == InitWith({1}, PklStates)

Next ==
  \/ MovieClicked(1, MovieInputs)
  \/ ShowClicked(1, ShowInputs)
  \/ MovieRecommendations(1)
  \/ PrepareStep(1)
  \/ LoopStep(1)
  \/ ReturnStep(1)

Spec == Init /\ [][Next]_vars

\* the watchlist endpoint, one request, every watchlist of the pool
WatchlistStores ==
  {AllReadable, Without("moviePickleFiles/movie_svd_model.pkl", "missing")}

InitWatchlist == InitWith({1}, WatchlistStores)

NextWatchlist ==
  \/ WatchlistReceive(1, WatchlistPool)
  \/ WatchlistEntry(1)
  \/ WatchlistRespond(1)

SpecWatchlist == InitWatchlist /\ [][NextWatchlist]_vars

\* NReq requests handled at once by one process, their steps interleaved;
\* every endpoint, records whose ranking has rows of equal similarity
ConcMovieInputs ==
  {<<Answer("ok", CatalogMovie(31)[1]), CatalogMovie(31)[2]>>}

ConcShowInputs ==
  {<<Answer("ok", [ShowBare(20) EXCEPT
                     !.genres = ListOf(<<Drama>>),
                     !.created_by = ListOf(<<[id |-> 5, name |-> "x"]>>)]),
     CreditsEmpty>>}

ConcPool == <<Entry(PyInt(31), "movie")>>

InitConc == InitWith(1..NReq, {AllReadable})

NextConc ==
  \E r \in 1..NReq :
    \/ MovieClicked(r, ConcMovieInputs)
    \/ ShowClicked(r, ConcShowInputs)
    \/ MovieRecommendations(r)
    \/ PrepareStep(r)
    \/ LoopStep(r)
    \/ ReturnStep(r)
    \/ WatchlistReceive(r, ConcPool)
    \/ WatchlistEntry(r)
    \/ WatchlistRespond(r)

SpecConc == InitConc /\ [][NextConc]_vars

(******************************* claims ************************************)
Slots == DOMAIN req
SingleItem(r) == req[r].endpoint \in {"movie_clicked", "show_clicked"}
Succeeded(r) == req[r].pc = "done" /\ req[r].response.status = "success"
\* the ids the loop has collected so far
Collected(r) == IdsAt(CorpusIds(req[r].type), req[r].st.unique_indices)

\* C1: the id of the query item is never in the list a single-item
\* request (movie_clicked or show_clicked) returns.
C1_QueryIdNeverRecommended ==
  \A r \in Slots :
    SingleItem(r) /\ Succeeded(r) =>
      req[r].details.body.id \notin Range(req[r].response.recommendations)

\* C2: at every iteration of the ranking loop, and in the list returned,
\* there are at most 5 ids and no id twice.
C2_AtMostFiveUnique ==
  \A r \in Slots :
    SingleItem(r) =>
      /\ Len(Collected(r)) <= TopK
      /\ NoDup(Collected(r))
      /\ Len(req[r].response.recommendations) <= TopK
      /\ NoDup(req[r].response.recommendations)
      /\ Succeeded(r) => req[r].response.recommendations = Collected(r)

\* a request returned 5 ids after the loop passed over a row whose id it
\* had already taken
C2_Witness ==
  \E r \in Slots :
    /\ SingleItem(r) /\ Succeeded(r)
    /\ Len(req[r].response.recommendations) = TopK
    /\ \E k \in 1..(req[r].st.pos - 1) :
         /\ req[r].sorted_indices[k] \notin Range(req[r].st.unique_indices)
         /\ CorpusIds(req[r].type)[req[r].sorted_indices[k]]
              \in Range(req[r].response.recommendations)

\* C3: the list the watchlist endpoint returns has at most 20 ids, no id
\* twice, and no id whose text is the id of a watchlist entry, whether the
\* entry gave it as a number or as a string.
C3_WatchlistOutput ==
  \A r \in Slots :
    req[r].endpoint = "watchlist" /\ req[r].pc = "done" =>
      LET recs == req[r].response.recommendations
      IN /\ Len(recs) <= WatchlistLimit
         /\ NoDup(recs)
         /\ \A k \in 1..Len(recs), e \in 1..Len(req[r].watchlist) :
              ToString(recs[k]) # Format(req[r].watchlist[e].id)

\* a watchlist with a failed entry whose filtered list was longer than 20
\* and lost an id that an entry gave as a string
C3_Witness ==
  \E r \in Slots :
    /\ req[r].endpoint = "watchlist" /\ Succeeded(r)
    /\ Len(req[r].filtered_recommendations) > WatchlistLimit
    /\ Len(req[r].response.recommendations) = WatchlistLimit
    /\ \E e \in 1..Len(req[r].log) : ~req[r].log[e].extended
    /\ \E e \in 1..Len(req[r].watchlist) :
         /\ req[r].watchlist[e].id.k = "str"
         /\ ToInt(Format(req[r].watchlist[e].id))
              \in Range(req[r].all_recommendations)

RECURSIVE Concat(_)
Concat(lists) ==
  IF lists = <<>> THEN <<>> ELSE Head(lists) \o Concat(Tail(lists))

\* C7: in the watchlist loop an entry that fails (provider status not ok,
\* or an exception while fetching, encoding or ranking) adds nothing; every
\* entry is reached; the aggregation holds, in order, the lists of the
\* entries that did not fail; and the response says "success".
C7_FailedEntrySkipped ==
  \A r \in Slots :
    req[r].endpoint = "watchlist" /\ req[r].watchlist # <<>> =>
      LET me == req[r]
      IN /\ Len(me.log) = me.i - 1
         /\ \A e \in 1..Len(me.log) :
              me.log[e].raised # "" \/ ~me.log[e].extended
                => me.log[e].list = <<>>
         /\ me.all_recommendations =
              Concat([e \in 1..Len(me.log) |-> me.log[e].list])
         /\ me.pc = "done" =>
              /\ Len(me.log) = Len(me.watchlist)
              /\ me.response.http = 200
              /\ me.response.status = "success"
              /\ Range(me.filtered_recommendations) =
                   {x \in Range(me.all_recommendations) :
                      ToString(x) \notin WatchlistIds(me.watchlist)}
              /\ Range(me.response.recommendations)
                   \subseteq Range(me.filtered_recommendations)

\* a watchlist where one entry raised, another got a non-success status,
\* and an entry after both still put its ids in the response
C7_Witness ==
  \E r \in Slots :
    /\ req[r].endpoint = "watchlist" /\ Succeeded(r)
    /\ \E a, b, c \in 1..Len(req[r].log) :
         /\ a < c /\ b < c
         /\ req[r].log[a].raised # ""
         /\ ~req[r].log[b].extended /\ req[r].log[b].raised = ""
         /\ req[r].watchlist[b].type \in {"movie", "tv"}
         /\ req[r].log[c].extended
         /\ Range(req[r].log[c].list)
              \cap Range(req[r].response.recommendations) # {}

\* C9: a request that needed a pickle of its content type that is
\* missing or unreadable does not answer "success", on the single-item
\* endpoints and on the watchlist endpoint.
C9_ArtifactFailureReported ==
  \A r \in Slots :
    /\ req[r].pc = "done"
    /\ \/ /\ SingleItem(r) /\ req[r].details.outcome = "ok"
          /\ \E p \in OpenedPickles(req[r].type) : pkl[p] # "ok"
       \/ \E e \in 1..Len(req[r].log) :
            req[r].log[e].raised \in PickleErrors
    => req[r].response.status # "success"

\* the columns of the schema of the request's content type
Schema(r) == ColumnInfo(req[r].type).all_columns
\* the request got as far as the projector
Projected(r) == SingleItem(r) /\ req[r].vector # <<>>

\* C4 as stated: the vector handed to the projector has one slot per
\* column of the persisted column list, in the order of the list.
C4_VectorHasSchemaLength ==
  \A r \in Slots :
    Projected(r) =>
      /\ Len(req[r].vector) = Len(Schema(r))
      /\ Columns(DropColumns(req[r].df, {"id"})) = Schema(r)

\* C4 amended: the frame the pipeline returns has exactly the columns of
\* the persisted list in the list's order; the vector handed to the
\* projector is that frame without the id column, so it is one slot
\* shorter than the list and its slot i is the i-th column other than id.
C4_VectorIsSchemaWithoutId ==
  \A r \in Slots :
    Projected(r) =>
      /\ Columns(req[r].df) = Schema(r)
      /\ req[r].vector = Values(DropColumns(req[r].df, {"id"}))
      /\ Columns(DropColumns(req[r].df, {"id"})) =
           SelectSeq(Schema(r), LAMBDA col : col # "id")
      /\ Len(req[r].vector) = Len(Schema(r)) - 1

\* both content types reach the projector with records that hold unknown
\* values, empty lists and known values
C4_Witness ==
  \E r \in Slots :
    /\ Projected(r) /\ Succeeded(r)
    /\ req[r].details.body.genres = ListOf(<<Comedy, NotAGenre>>)
    /\ \E cell \in Range(req[r].df) : cell.c # "id" /\ cell.v.x # 0

\* a complete record of the expected types; its values may be unknown
WellTyped(r) ==
  LET b == req[r].details.body
      date == IF req[r].type = "movie" THEN b.release_date
              ELSE b.first_air_date
  IN /\ req[r].details.outcome = "ok"
     /\ b.keys = (IF req[r].type = "movie" THEN MovieBase(0) ELSE ShowBase(0)).keys
     /\ b.overview.k = "str"
     /\ (IF req[r].type = "movie" THEN b.title ELSE b.name).k = "str"
     /\ b.genres.k = "list"
     /\ \A g \in Range(b.genres.items) : "name" \in DOMAIN g
     /\ b.production_countries.k = "list"
     /\ date.k = "str" /\ IsDigit(extract_release_date(date))
     /\ b.popularity.k = "num" /\ b.vote_average.k = "num"
     /\ b.original_language.k = "str"
     /\ req[r].type = "tv" =>
          /\ b.number_of_episodes.k = "num" /\ b.number_of_seasons.k = "num"
          /\ b.created_by.k = "list"
     /\ req[r].type = "movie" =>
          /\ req[r].credits.outcome = "ok"
          /\ req[r].credits.cast.k = "list" /\ req[r].credits.crew.k = "list"

\* C6: whatever frame the pipeline returns has exactly the schema's set of
\* columns, and a record whose values are of the expected types, known to
\* the vocabulary or not, never raises.
C6_UnknownValuesAddNoColumn ==
  \A r \in Slots :
    SingleItem(r) /\ req[r].pc \in {"loop", "done"} =>
      /\ req[r].df # <<>> => ColumnSet(req[r].df) = Range(Schema(r))
      /\ WellTyped(r) /\ Readable(pkl, OpenedPickles(req[r].type)) =>
           /\ req[r].df # <<>>
           /\ req[r].response.error = ""

\* a movie with no value the vocabulary knows was encoded and ranked
C6_Witness ==
  \E r \in Slots :
    /\ SingleItem(r) /\ Succeeded(r)
    /\ req[r].details.body.genres = ListOf(<<NotAGenre>>)
    /\ req[r].details.body.original_language = PyStr("xx")
    /\ req[r].credits = CreditsOther
    /\ ColumnSet(req[r].df) = Range(Schema(r))

\* C8: a single-item request whose provider request failed (unreachable,
\* or a non-success status, for the details or for the credits), and every
\* movie_recommendations request, gets an error and not a "success" with
\* a list.
C8_ProviderFailureReported ==
  \A r \in Slots :
    /\ req[r].pc = "done"
    /\ \/ req[r].endpoint = "movie_recommendations"
       \/ /\ SingleItem(r)
          /\ req[r].details.outcome \in {"http_error", "unreachable"}
       \/ /\ req[r].endpoint = "movie_clicked"
          /\ req[r].details.outcome = "ok"
          /\ req[r].credits.outcome \in {"http_error", "unreachable"}
    => /\ req[r].response.http = 500
       /\ req[r].response.error # ""
       /\ req[r].response.status # "success"
       /\ req[r].response.recommendations = <<>>

\* a show request answered with the provider's error body ended in a 500
C8_Witness ==
  \E r \in Slots :
    /\ req[r].pc = "done" /\ req[r].endpoint = "show_clicked"
    /\ req[r].details.outcome = "http_error"
    /\ req[r].response.http = 500 /\ req[r].response.error = "KeyError"

AsIfAlone ==
  \A r \in Slots :
    req[r].pc = "done" =>
      /\ SingleItem(r) /\ req[r].details.outcome = "ok" =>
           \E p \in {Prepare(req[r].type, req[r].details.body,
                              req[r].credits, pkl, ties)} :
             /\ req[r].vector = p.vector
             /\ req[r].response.error = p.raised
             /\ req[r].response.recommendations = Ranked(req[r].type, p).list
      /\ req[r].endpoint = "watchlist" =>
           req[r].all_recommendations =
             Concat([e \in 1..Len(req[r].log) |->
                       IF req[r].log[e].extended
                       THEN TryEntry(req[r].watchlist[e], "ok", pkl, ties).list
                       ELSE <<>>])

\* C10: no step of any request changes the pickle store, and under every
\* interleaving of single-item and watchlist requests each finished request
\* holds the vector and the ranking it would have produced alone.
C10_ArtifactsReadOnly == [][pkl' = pkl]_vars /\ []AsIfAlone

\* a single-item request is inside its loop while a watchlist request,
\* which has ranked an entry, is inside its own
C10_Witness ==
  \E r1, r2 \in Slots :
    /\ SingleItem(r1) /\ req[r1].pc = "loop" /\ req[r1].st.pos > 1
    /\ req[r2].endpoint = "watchlist" /\ req[r2].pc = "watchlist"
    /\ req[r2].all_recommendations # <<>>
    /\ pkl = AllReadable

\* the request's record is the fully valid one but for a single field
\* that is absent or of an unexpected shape
OneFieldOff(r) ==
  LET b == req[r].details.body
  IN /\ SingleItem(r) /\ req[r].details.outcome = "ok"
     /\ req[r].credits.outcome = "ok"
     /\ ~WellTyped(r)
     /\ IF req[r].type = "movie"
        THEN \/ b \in MovieVariants(MovieBase(b.id))
                /\ req[r].credits = CreditsKnown
             \/ b = MovieBase(b.id) /\ req[r].credits = CreditsMalformed
        ELSE b \in ShowVariants(ShowBase(b.id))

\* C11: a record with a single absent or malformed field does not abort
\* processMovieAPI / processShowAPI: the pipeline still returns a frame
\* with every schema column.
C11_SingleDefectNotFatal ==
  \A r \in Slots :
    /\ OneFieldOff(r) /\ req[r].pc \in {"loop", "done"}
    /\ Readable(pkl, OpenedPickles(req[r].type))
    => Columns(req[r].df) = Schema(r)

\* the entries of the watchlist that were fetched and ranked
Processed(r) == {e \in 1..Len(req[r].log) : req[r].log[e].extended}

\* C12: the watchlist response counts the recommendations it returns and
\* the entries that were actually fetched and ranked, not the entries
\* that were skipped.
C12_CountsReported ==
  \A r \in Slots :
    req[r].endpoint = "watchlist" /\ Succeeded(r) =>
      /\ req[r].response.total_recommendations =
           Len(req[r].response.recommendations)
      /\ req[r].response.total_processed = Cardinality(Processed(r))

\* C13: in the watchlist loop a movie entry yields ids of the movie corpus
\* only, a tv entry ids of the show corpus only, and an entry of another
\* type runs neither pipeline: it yields nothing and raises nothing.
C13_NoCrossTypeMixing ==
  \A r \in Slots :
    req[r].endpoint = "watchlist" =>
      \A e \in 1..Len(req[r].log) :
        LET type == req[r].watchlist[e].type
            got == req[r].log[e]
        IN CASE type = "movie" -> Range(got.list) \subseteq Range(movie_ids)
             [] type = "tv" -> Range(got.list) \subseteq Range(show_ids)
             [] OTHER -> ~got.extended /\ got.raised = "" /\ got.list = <<>>

\* one watchlist gave a movie entry an id only the movie corpus has, a tv
\* entry an id only the show corpus has, and skipped an entry of another
\* type
C13_Witness ==
  \E r \in Slots :
    /\ req[r].endpoint = "watchlist" /\ Succeeded(r)
    /\ \E a, b, c \in 1..Len(req[r].log) :
         /\ req[r].watchlist[a].type = "movie"
         /\ Range(req[r].log[a].list) \ Range(show_ids) # {}
         /\ req[r].watchlist[b].type = "tv"
         /\ Range(req[r].log[b].list) \ Range(movie_ids) # {}
         /\ req[r].watchlist[c].type \notin {"movie", "tv"}

\* the similarities the request's ranking was sorted from
QuerySims(r) ==
  Similarities(svd_transform(SvdModel(req[r].type), req[r].vector).embedding,
               Embeddings(req[r].type))

\* the id the request's loop skips: the query's on the movie path, none
\* on the show path
ExcludedIds(r) == IF req[r].type = "movie" THEN {req[r].current_id} ELSE {}

\* C14: the ids returned are in non-increasing order of similarity, each
\* id stands for its most similar row, and no id left out (other than an
\* excluded one) is strictly more similar than an id returned.
C14_MostSimilarFirst ==
  \A r \in Slots :
    SingleItem(r) /\ Succeeded(r) =>
      \E sims \in {QuerySims(r)} :
        LET u == req[r].st.unique_indices
            ids == CorpusIds(req[r].type)
        IN /\ \A k \in 1..(Len(u) - 1) : ~SimLess(sims[u[k]], sims[u[k + 1]])
           /\ \A k \in 1..Len(u), j \in 1..Len(ids) :
                ids[j] = ids[u[k]] => ~SimLess(sims[u[k]], sims[j])
           /\ \A j \in 1..Len(ids) :
                ids[j] \notin Range(req[r].response.recommendations)
                  \cup ExcludedIds(r)
                => \A k \in 1..Len(u) : ~SimLess(sims[u[k]], sims[j])

\* five ids of strictly different similarity were returned, one of them
\* for the better of its two rows, and a less similar id was left out
C14_Witness ==
  \E r \in Slots :
    /\ SingleItem(r) /\ Succeeded(r)
    /\ Len(req[r].st.unique_indices) = TopK
    /\ \E sims \in {QuerySims(r)} :
         LET u == req[r].st.unique_indices
             ids == CorpusIds(req[r].type)
         IN /\ SimLess(sims[u[TopK]], sims[u[1]])
            /\ \E k \in 1..TopK, j \in 1..Len(ids) :
                 j # u[k] /\ ids[j] = ids[u[k]] /\ SimLess(sims[j], sims[u[k]])
            /\ \E j \in 1..Len(ids) :
                 /\ ids[j] \notin Range(req[r].response.recommendations)
                 /\ SimLess(sims[j], sims[u[TopK]])

\* C15: rows of exactly equal similarity are visited in corpus index
\* order, the smaller index first, so of two equally similar ids the one
\* of the lower row is emitted first and survives the cut at five.
C15_TiesInIndexOrder ==
  \A r \in Slots :
    SingleItem(r) /\ req[r].pc \in {"loop", "done"}
    /\ req[r].sorted_indices # <<>> =>
      \E sims \in {QuerySims(r)} :
        LET s == req[r].sorted_indices
        IN \A i, j \in 1..Len(s) :
             /\ i < j
             /\ ~SimLess(sims[s[i]], sims[s[j]])
             /\ ~SimLess(sims[s[j]], sims[s[i]])
             => s[i] < s[j]

(******************** The ranker over arbitrary corpora ********************)
\* The pickled corpus is whatever the training run left: the steps of
\* getSimilarMovies / getSimilarShows from cosine_similarity on, for every
\* small corpus and for every prefix of the two corpora above.
MaxRows == 3

RankerVectors == {<<1, 0>>, <<0, 1>>, <<-1, 0>>}
RankerIds == {1, 2}
RankerQueryIds == {1, 3, 10}

SmallCorpora ==
  UNION {{[ids |-> [i \in 1..n |-> c[i][1]],
           embeddings |-> [i \in 1..n |-> c[i][2]]] :
            c \in [1..n -> RankerIds \X RankerVectors]} : n \in 0..MaxRows}

PickledCorpora ==
  {[ids |-> Take(movie_ids, n), embeddings |-> Take(movie_embeddings, n)] :
     n \in 0..Len(movie_ids)}
  \cup {[ids |-> Take(show_ids, n), embeddings |-> Take(show_embeddings, n)] :
          n \in 0..Len(show_ids)}

\* check_pairwise_arrays inside cosine_similarity: check_array refuses an
\* array of no rows
check_pairwise_arrays(embeddings) ==
  IF embeddings = <<>> THEN "ValueError" ELSE ""

RankerCalled(type, corpus, query_embedding, current_id) ==
  [pc |-> "called", type |-> type, ids |-> corpus.ids,
   embeddings |-> corpus.embeddings, query_embedding |-> query_embedding,
   current_id |-> current_id, sorted_indices |-> <<>>,
   st |-> LoopStart(<<>>), raised |-> "", result |-> <<>>]

InitRanker ==
  /\ pkl = AllReadable
  /\ ties \in {"index_desc", "index_asc"}
  /\ req \in {RankerCalled(type, corpus, q, id) :
                type \in {"movie", "tv"},
                corpus \in SmallCorpora \cup PickledCorpora,
                q \in RankerVectors, id \in RankerQueryIds}

\* similarities = cosine_similarity(...).flatten(); argsort()[::-1]
RankerSort ==
  /\ req.pc = "called"
  /\ req' = IF check_pairwise_arrays(req.embeddings) # ""
            THEN [req EXCEPT !.pc = "raised",
                             !.raised = check_pairwise_arrays(req.embeddings)]
            ELSE LET sorted_indices ==
                       sorted_indices_of(req.query_embedding, req.embeddings,
                                         ties)
                 IN [req EXCEPT !.pc = "loop",
                                !.sorted_indices = sorted_indices,
                                !.st = LoopStart(sorted_indices)]
  /\ UNCHANGED <<pkl, ties>>

\* one iteration of `for idx in sorted_indices`
RankerLoopStep ==
  /\ req.pc = "loop" /\ ~req.st.done
  /\ req' = [req EXCEPT !.st = LoopBody(req.type, @, req.sorted_indices,
                                        req.ids, req.current_id)]
  /\ UNCHANGED <<pkl, ties>>

\* return ids.iloc[unique_indices].tolist()
RankerReturn ==
  /\ req.pc = "loop" /\ req.st.done
  /\ req' = [req EXCEPT !.pc = "returned",
                        !.result = IdsAt(req.ids, req.st.unique_indices)]
  /\ UNCHANGED <<pkl, ties>>

NextRanker == RankerSort \/ RankerLoopStep \/ RankerReturn

SpecRanker == InitRanker /\ [][NextRanker]_vars

\* the distinct corpus ids other than the query's
EligibleIds == Range(req.ids) \ {req.current_id}

\* C16: the ranking ends without raising and returns exactly min(5, n)
\* ids, n the number of distinct corpus ids other than the query's, also
\* for an empty corpus and for a corpus of the query id alone.
C16_ExactlyMinFiveIds ==
  req.pc \in {"returned", "raised"} =>
    /\ req.raised = ""
    /\ Len(req.result) =
         IF Cardinality(EligibleIds) < TopK THEN Cardinality(EligibleIds)
         ELSE TopK

(************************ The helpers, called alone ************************)
\* One call of a helper of helperFunctions.py on an argument drawn from a
\* bounded set: req = the call, its arguments and what it gave back.
MaxCols == 2

HelperCall(fn, df, column_info, description, crew_data) ==
  [pc |-> "called", fn |-> fn, df |-> df, column_info |-> column_info,
   description |-> description, crew_data |-> crew_data,
   content_type |-> "", rows |-> <<>>,
   raised |-> "", out_df |-> <<>>, out_list |-> <<>>, out_id |-> PyNone,
   out_rows |-> <<>>]

\* sequences of at most n different elements of S
DistinctSeqs(S, n) ==
  UNION {{c \in [1..k -> S] : \A i, j \in 1..k : c[i] = c[j] => i = j} :
           k \in 0..n}

SchemaNames == {"id", "popularity", "genres_comedy", "cast_7"}
FrameNames == SchemaNames \cup {"cast_99"}
FrameValues == {F(0), F(7)}

\* the call on a frame of different columns, in any order, and a persisted
\* list of different names, in any order
AlignerCall(cols, vals, all_columns) ==
  HelperCall("add_missing_columns_and_reorder",
             [i \in 1..Len(cols) |-> Cell(cols[i], vals[i])],
             [all_columns |-> all_columns], NoText, NoList)

InitAligner ==
  \E cols \in DistinctSeqs(FrameNames, MaxCols) :
    \E vals \in [1..Len(cols) -> FrameValues] :
      \E all_columns \in DistinctSeqs(SchemaNames, Cardinality(SchemaNames)) :
        req = AlignerCall(cols, vals, all_columns)

\* df = add_missing_columns_and_reorder(df, column_info_path)
AlignerReturn ==
  /\ req.pc = "called" /\ req.fn = "add_missing_columns_and_reorder"
  /\ \E got \in {add_missing_columns_and_reorder(req.df, req.column_info)} :
       req' = [req EXCEPT !.pc = IF got.raised = "" THEN "returned"
                                 ELSE "raised",
                          !.raised = got.raised, !.out_df = got.df]
  /\ UNCHANGED <<pkl, ties>>

MaxTokens == 5

Words == {"the", "lazy", "dog", "ran", "Robot", "!"}

KeywordCall(description) ==
  HelperCall("extract_keywords", <<>>, [all_columns |-> <<>>], description,
             NoList)

\* the descriptions: every text of at most MaxTokens tokens (the text of
\* no token is ""), None and NaN
InitKeywords ==
  \/ \E n \in 0..MaxTokens :
       \E toks \in [1..n -> Words] : req = KeywordCall(Text(toks))
  \/ \E description \in {NoText, NaNText} : req = KeywordCall(description)

\* extract_keywords(description)
KeywordsReturn ==
  /\ req.pc = "called" /\ req.fn = "extract_keywords"
  /\ req' = [req EXCEPT !.pc = "returned",
                        !.out_list = extract_keywords(req.description)]
  /\ UNCHANGED <<pkl, ties>>

MaxCrew == 3

\* crew entries: dicts with and without 'job' and 'id', and a non-dict
CrewEntries ==
  {[job |-> "Producer", id |-> 1], [job |-> "Director", id |-> 2],
   [job |-> "Director", id |-> 3], [job |-> "director", id |-> 4],
   [job |-> "Director"], [id |-> 5], [text |-> "Director"]}

\* what is not a list: None, '', NaN, an unparseable text, the text of a
\* literal that is no list, a dict
NoCrew == {[k |-> kind, items |-> <<>>] :
             kind \in {"none", "empty", "nan", "badstr", "otherstr", "other"}}

DirectorCall(crew_data) ==
  HelperCall("find_director_id", <<>>, [all_columns |-> <<>>], NoText,
             crew_data)

InitDirector ==
  \/ \E n \in 0..MaxCrew : \E items \in [1..n -> CrewEntries] :
       \E kind \in {"list", "liststr"} :
         req = DirectorCall([k |-> kind, items |-> items])
  \/ \E crew_data \in NoCrew : req = DirectorCall(crew_data)

\* find_director_id(crew_data)
DirectorReturn ==
  /\ req.pc = "called" /\ req.fn = "find_director_id"
  /\ req' = [req EXCEPT !.pc = "returned",
                        !.out_id = find_director_id(req.crew_data)]
  /\ UNCHANGED <<pkl, ties>>

MaxGenres == 2
MaxFrameRows == 1

\* the elements of a genre list: names inside and outside the two sets, a
\* padded name, and None
GenreElements ==
  {PyStr("Comedy"), PyStr("Drama"), PyStr("Kids"), PyStr("NotAGenre"),
   PyStr(" Comedy "), PyNone}

GenresCall(content_type, rows) ==
  [HelperCall("clean_and_validate_genres", <<>>, [all_columns |-> <<>>],
              NoText, NoList)
     EXCEPT !.content_type = content_type, !.rows = rows]

\* the cells of a genre column: every list of at most MaxGenres elements,
\* None, and a value that is no list
GenreCells ==
  UNION {{ListOf(items) : items \in [1..m -> GenreElements]} :
           m \in 0..MaxGenres}
  \cup {NoList, NotAList}

InitGenres ==
  \E content_type \in {"movie", "tv"}, n \in 1..MaxFrameRows :
    \E cells \in [1..n -> GenreCells] :
      req = GenresCall(content_type,
                       [i \in 1..n |-> [genres |-> cells[i]]])

\* df = clean_and_validate_genres(df, content_type)
GenresReturn ==
  /\ req.pc = "called" /\ req.fn = "clean_and_validate_genres"
  /\ req' = [req EXCEPT !.pc = "returned",
                        !.out_rows = clean_and_validate_genres(
                                       req.rows, req.content_type)]
  /\ UNCHANGED <<pkl, ties>>

MaxLangRows == 4

\* language codes: the four that are replaced, two that are not, and None
LanguageCodes ==
  {PyStr("cn"), PyStr("mo"), PyStr("sh"), PyStr("xx"), PyStr("en"),
   PyStr("zh"), PyNone}

LanguagesCall(rows) ==
  [HelperCall("clean_language_codes", <<>>, [all_columns |-> <<>>], NoText,
              NoList)
     EXCEPT !.rows = rows]

InitLanguages ==
  \E n \in 0..MaxLangRows : \E codes \in [1..n -> LanguageCodes] :
    req = LanguagesCall([i \in 1..n |->
                           [id |-> i, original_language |-> codes[i]]])

\* df = clean_language_codes(df, 'original_language')
LanguagesReturn ==
  /\ req.pc = "called" /\ req.fn = "clean_language_codes"
  /\ req' = [req EXCEPT !.pc = "returned",
                        !.out_rows = clean_language_codes(req.rows)]
  /\ UNCHANGED <<pkl, ties>>

InitHelpers ==
  /\ pkl = AllReadable
  /\ ties = "index_desc"
  /\ \/ InitAligner \/ InitKeywords \/ InitDirector \/ InitGenres
     \/ InitLanguages

NextHelpers ==
  \/ AlignerReturn \/ KeywordsReturn \/ DirectorReturn \/ GenresReturn
  \/ LanguagesReturn

SpecHelpers == InitHelpers /\ [][NextHelpers]_vars

Aligned == req.fn = "add_missing_columns_and_reorder" /\ req.pc # "called"

\* C17: for every input frame and every column list the aligner returns
\* exactly the list's columns in the list's order; a listed column the
\* input lacks holds 0, a listed column the input has keeps its value, and
\* an input column that is not listed is dropped.
C17_AlignerTotal ==
  Aligned =>
    LET all_columns == req.column_info.all_columns
    IN /\ req.raised = ""
       /\ Columns(req.out_df) = all_columns
       /\ \A i \in 1..Len(all_columns) :
            req.out_df[i].v =
              IF all_columns[i] \in ColumnSet(req.df)
              THEN ValueOf(req.df, all_columns[i]) ELSE F(0)
       /\ ColumnSet(req.out_df) \cap
            (ColumnSet(req.df) \ Range(all_columns)) = {}

\* three listed columns were missing and hold 0, a listed column kept a
\* value other than 0 at another position than it had, and an unlisted
\* column was dropped
C17_Witness ==
  /\ Aligned /\ req.pc = "returned"
  /\ Cardinality(Range(req.column_info.all_columns) \ ColumnSet(req.df)) = 3
  /\ \E i \in 1..Len(req.out_df), j \in 1..Len(req.df) :
       /\ i # j /\ req.out_df[i].c = req.df[j].c
       /\ req.out_df[i].v = req.df[j].v /\ req.df[j].v # F(0)
  /\ ColumnSet(req.df) \ Range(req.column_info.all_columns) # {}

\* the lowercased tokens of the call's text, the words among them that
\* count, how often a word occurs and where it occurs first
LoweredTokens ==
  [i \in 1..Len(req.description.toks) |-> Lower(req.description.toks[i])]
KeptWords ==
  {w \in Range(LoweredTokens) : w \notin StopWords /\ IsAlnum(w)}
Frequency(w) ==
  Cardinality({i \in 1..Len(LoweredTokens) : LoweredTokens[i] = w})
FirstAt(w) ==
  CHOOSE i \in 1..Len(LoweredTokens) :
    LoweredTokens[i] = w /\ \A j \in 1..(i - 1) : LoweredTokens[j] # w
\* word v ranks before word w
RanksBefore(v, w) ==
  \/ Frequency(v) > Frequency(w)
  \/ Frequency(v) = Frequency(w) /\ FirstAt(v) < FirstAt(w)

\* C19: extract_keywords returns at most 3 words, each a lowercased
\* alphanumeric non-stopword token of the text, by descending frequency and
\* among equally frequent words in order of first occurrence; an empty
\* text, None and NaN give the empty list, and no call raises.
C19_TopThreeKeywords ==
  req.fn = "extract_keywords" /\ req.pc # "called" =>
    LET out == req.out_list
    IN /\ req.pc = "returned" /\ req.raised = ""
       /\ Len(out) <= 3 /\ NoDup(out)
       /\ Range(out) \subseteq KeptWords
       /\ Len(out) = 3 \/ Range(out) = KeptWords
       /\ \A i, j \in 1..Len(out) : i < j => RanksBefore(out[i], out[j])
       /\ \A w \in KeptWords \ Range(out) :
            \A i \in 1..Len(out) : RanksBefore(out[i], w)
       /\ req.description.k # "str" \/ req.description.toks = <<>>
            => out = <<>>

\* "the lazy lazy dog ran" gave lazy, dog, ran
C19_Witness ==
  /\ req.fn = "extract_keywords" /\ req.pc = "returned"
  /\ req.description = Text(<<"the", "lazy", "lazy", "dog", "ran">>)
  /\ req.out_list = <<"lazy", "dog", "ran">>

\* the positions of the call's crew whose job is exactly "Director"
DirectorsAt ==
  {i \in 1..Len(req.crew_data.items) :
     /\ "job" \in DOMAIN req.crew_data.items[i]
     /\ req.crew_data.items[i].job = "Director"}

Recommended(r) == UNION {Range(req[r].log[e].list) : e \in 1..Len(req[r].log)}
WatchlistIdNumbers(r) ==
  {IF req[r].watchlist[e].id.k = "int" THEN req[r].watchlist[e].id.n
   ELSE ToInt(req[r].watchlist[e].id.s) : e \in 1..Len(req[r].watchlist)}
Remaining(r) == Recommended(r) \ WatchlistIdNumbers(r)

\* C18: the aggregator concatenates, deduplicates, removes the watchlist
\* ids, shuffles and only then cuts to 20: the list before the cut holds
\* each remaining id once, the response is its first 20, so it has exactly
\* min(20, remaining ids) ids, all of them from the per-entry results.
C18_CutLast ==
  \A r \in Slots :
    req[r].endpoint = "watchlist" /\ Succeeded(r) =>
      LET recs == req[r].response.recommendations
          filtered == req[r].filtered_recommendations
      IN /\ Range(req[r].all_recommendations) = Recommended(r)
         /\ NoDup(filtered) /\ Range(filtered) = Remaining(r)
         /\ recs = Take(filtered, WatchlistLimit)
         /\ Len(recs) = IF Cardinality(Remaining(r)) < WatchlistLimit
                        THEN Cardinality(Remaining(r)) ELSE WatchlistLimit
         /\ Range(recs) \subseteq Recommended(r)

\* more than 20 ids remained after an id was recommended twice and a
\* watchlist id among the 20 smallest recommended ids was removed, and the
\* shuffle moved the list before the cut
C18_Witness ==
  \E r \in Slots :
    /\ req[r].endpoint = "watchlist" /\ Succeeded(r)
    /\ Cardinality(Remaining(r)) > WatchlistLimit
    /\ Len(req[r].all_recommendations) > Cardinality(Recommended(r))
    /\ \E id \in Recommended(r) \cap WatchlistIdNumbers(r) :
         Cardinality({n \in Recommended(r) : n < id}) < WatchlistLimit
    /\ req[r].filtered_recommendations
         # SortedSeq(Range(req[r].filtered_recommendations))

\* the closed set of the call's content type
ValidGenres ==
  IF req.content_type = "movie" THEN movie_valid_genres ELSE show_valid_genres

\* C21: clean_and_validate_genres is all-or-nothing per record: a list
\* with an element outside the content type's closed set becomes empty, a
\* list whose elements are all in the set passes through unchanged, and
\* the input frame is not modified.
C21_GenresAllOrNothing ==
  req.fn = "clean_and_validate_genres" /\ req.pc # "called" =>
    /\ req.pc = "returned" /\ Len(req.out_rows) = Len(req.rows)
    /\ \A i \in 1..Len(req.rows) :
         LET genre_list == req.rows[i].genres
             validated == req.out_rows[i].genres
         IN genre_list.k = "list" =>
              IF \A e \in 1..Len(genre_list.items) :
                   /\ genre_list.items[e].k = "str"
                   /\ genre_list.items[e].s \in ValidGenres
              THEN validated = genre_list
              ELSE validated = ListOf(<<>>)

\* the pipeline of the request returned a frame
Encoded(r) == SingleItem(r) /\ req[r].pc \in {"loop", "done"} /\ req[r].df # <<>>

\* the names in the genre list of the request's record
GenreNames(r) ==
  LET genres == req[r].details.body.genres
  IN IF genres.k # "list" THEN {}
     ELSE {genres.items[i].name :
             i \in {j \in 1..Len(genres.items) :
                      "name" \in DOMAIN genres.items[j]}}

\* the cells of the frame whose column starts with the prefix
Indicators(r, prefix) ==
  {i \in 1..Len(req[r].df) : StartsWith(req[r].df[i].c, prefix)}

\* C22: a record with a genre outside the closed genre set of its content
\* type has every genre indicator column of its encoded vector at 0.
C22_GenreValidityEnforced ==
  \A r \in Slots :
    /\ Encoded(r)
    /\ GenreNames(r) \ (IF req[r].type = "movie" THEN movie_valid_genres
                        ELSE show_valid_genres) # {}
    => \A i \in Indicators(r, "genres_") : req[r].df[i].v = F(0)

\* the single-valued fields of the request's record, each with the prefix
\* of its indicator columns and the value the encoder is given
SingleValued(r) ==
  LET b == req[r].details.body
      language == IF "original_language" \in b.keys THEN b.original_language
                  ELSE PyNone
  IN IF req[r].type = "movie"
     THEN {<<"original_language_", language>>,
           <<"directors_", find_director_id(req[r].credits.crew)>>}
     ELSE {<<"original_language_", language>>,
           <<"created_by_", checkCreatedBy(b).value>>}

\* the indicator columns of the prefix that are not 0
Set(r, prefix) ==
  {req[r].df[i].c : i \in {j \in Indicators(r, prefix) :
                             req[r].df[j].v # F(0)}}

\* C23: of the indicator columns of a single-valued field (original
\* language, director id, creator) at most one is 1: the column of the
\* record's value when the vocabulary has it; all are 0 when the value is
\* missing or unknown.
C23_OneHotAtMostOne ==
  \A r \in Slots :
    Encoded(r) =>
      \A f \in SingleValued(r) :
        /\ \A i \in Indicators(r, f[1]) : req[r].df[i].v \in {F(0), F(One)}
        /\ Set(r, f[1]) =
             IF f[2].k # "none" /\ f[1] \o Format(f[2]) \in Range(Schema(r))
             THEN {f[1] \o Format(f[2])} ELSE {}

\* a movie whose director is in the vocabulary and whose language is not
\* was encoded
C23_Witness ==
  \E r \in Slots :
    /\ Encoded(r) /\ req[r].type = "movie"
    /\ Set(r, "directors_") = {"directors_2"}
    /\ req[r].details.body.original_language = PyStr("xx")
    /\ Set(r, "original_language_") = {}
    /\ Cardinality(Indicators(r, "original_language_")) = 2

\* the multi-valued fields of the request's record, each with the prefix
\* of its indicator columns and the record's normalized values
MultiValued(r) ==
  LET b == req[r].details.body
      genres == make_lower(extract_feature_values(b.genres, "name"))
      overview == make_lower(extract_keywords(b.overview))
  IN IF req[r].type = "movie"
     THEN {<<"genres_", Range(genres)>>,
           <<"production_countries_",
             Range(make_lower(extract_feature_values(b.production_countries,
                                                     "iso_3166_1")))>>,
           <<"title_keywords_", Range(make_lower(extract_keywords(b.title)))>>,
           <<"overview_keywords_", Range(overview)>>,
           <<"cast_",
             Range(IntLabels(extract_feature_values(req[r].credits.cast,
                                                    "id")))>>}
     ELSE {<<"genres_", Range(genres)>>,
           <<"production_countries_",
             Range(make_lower(extract_feature_values(b.production_countries,
                                                     "name")))>>,
           <<"title_keywords_", Range(make_lower(extract_keywords(b.name)))>>,
           <<"overview_keywords_", Range(overview)>>}

\* C24: in the encoded vector of a movie and of a show the indicator
\* column of a vocabulary entry of a multi-valued field (genres,
\* production countries, title keywords, overview keywords, cast ids) is 1
\* exactly when the entry is among the record's normalized values of the
\* field, and 0 otherwise.
C24_MultiHotIffPresent ==
  \A r \in Slots :
    Encoded(r) =>
      \A f \in MultiValued(r) :
        /\ Indicators(r, f[1]) # {}
        /\ \A i \in Indicators(r, f[1]) :
             req[r].df[i].v =
               IF StripPrefix(req[r].df[i].c, f[1]) \in f[2] THEN F(One)
               ELSE F(0)

\* a movie of two known genres, a known and an unknown country, one of
\* two vocabulary cast ids and a title keyword the vocabulary lacks
C24_Witness ==
  \E r \in Slots :
    /\ Encoded(r) /\ req[r].type = "movie"
    /\ Set(r, "cast_") = {"cast_7"}
    /\ \E f \in MultiValued(r) :
         f[1] = "title_keywords_" /\ "robot" \in f[2] /\ "lazy" \in f[2]
    /\ Set(r, "title_keywords_") = {"title_keywords_lazy"}

\* the date column of the request's content type
DateColumn(r) ==
  IF req[r].type = "movie" THEN "release_date" ELSE "first_air_date"

\* the provider answered, the pickles load, and the record is the valid
\* one but for its date, which is null or empty
DateMissing(r) ==
  LET b == req[r].details.body
  IN /\ SingleItem(r) /\ req[r].pc \in {"loop", "done"}
     /\ req[r].details.outcome = "ok"
     /\ Readable(pkl, OpenedPickles(req[r].type))
     /\ IF req[r].type = "movie"
        THEN /\ req[r].credits = CreditsKnown
             /\ b.release_date \in {NoDate, Date("")}
             /\ [b EXCEPT !.release_date = MovieBase(b.id).release_date]
                  = MovieBase(b.id)
        ELSE /\ b.first_air_date \in {NoDate, Date("")}
             /\ [b EXCEPT !.first_air_date = ShowBase(b.id).first_air_date]
                  = ShowBase(b.id)

\* C25: a record whose release_date / first_air_date is null or empty is
\* processed without an error by processMovieAPI and processShowAPI, and
\* its date column holds the missing-value marker.
C25_MissingDateIsMarked ==
  \A r \in Slots :
    DateMissing(r) =>
      /\ req[r].df # <<>>
      /\ ValueOf(req[r].df, DateColumn(r)) = NaN

\* the creator of a show record as the rule states it: none for an absent
\* or empty list, else the first creator's id when it has one, else its
\* name
FirstCreator(b) ==
  IF "created_by" \notin b.keys \/ b.created_by.k # "list"
     \/ b.created_by.items = <<>>
  THEN PyNone
  ELSE LET first_item == b.created_by.items[1]
       IN IF "id" \in DOMAIN first_item THEN PyInt(first_item.id)
          ELSE IF "name" \in DOMAIN first_item THEN PyStr(first_item.name)
          ELSE PyNone

\* C26: an empty or absent creator list sets no creator column and raises
\* nothing; a non-empty list sets the column of its first creator alone,
\* by the creator's id whenever it has one (id 0 too) and by the name only
\* when it has no id.
C26_FirstCreatorByIdThenName ==
  \A r \in Slots :
    Encoded(r) /\ req[r].type = "tv"
    /\ ("created_by" \in req[r].details.body.keys
          => req[r].details.body.created_by.k # "other") =>
      LET creator == FirstCreator(req[r].details.body)
      IN Set(r, "created_by_") =
           IF creator.k # "none"
              /\ "created_by_" \o Format(creator) \in Range(Schema(r))
           THEN {"created_by_" \o Format(creator)} ELSE {}

\* the rows of the call whose code is none of the given ones, in order
RowsWithout(codes) ==
  SelectSeq(req.rows, LAMBDA row : row.original_language \notin codes)

\* the returned rows are the given rows, in order, with cn, mo and sh
\* replaced by zh, ro and sr and every other code as it was
CleanedFrom(kept) ==
  /\ Len(req.out_rows) = Len(kept)
  /\ \A i \in 1..Len(kept) :
       /\ req.out_rows[i].id = kept[i].id
       /\ req.out_rows[i].original_language =
            CASE kept[i].original_language = PyStr("cn") -> PyStr("zh")
              [] kept[i].original_language = PyStr("mo") -> PyStr("ro")
              [] kept[i].original_language = PyStr("sh") -> PyStr("sr")
              [] OTHER -> kept[i].original_language

\* C27 as stated: clean_language_codes maps cn to zh, mo to ro and sh to
\* sr, removes exactly the rows whose code is xx, and leaves every other
\* row in place, in order, with its code unchanged.
C27_RemovesExactlyXX ==
  req.fn = "clean_language_codes" /\ req.pc # "called" =>
    req.pc = "returned" /\ CleanedFrom(RowsWithout({PyStr("xx")}))

\* C27 amended: the rows removed are those whose code is xx and those
\* whose code is null; the rest is as stated.
C27_RemovesXXAndNull ==
  req.fn = "clean_language_codes" /\ req.pc # "called" =>
    req.pc = "returned" /\ CleanedFrom(RowsWithout({PyStr("xx"), PyNone}))

\* of the rows en, cn, xx and null the first two came back, as en and zh
C27_Witness ==
  /\ req.fn = "clean_language_codes" /\ req.pc = "returned"
  /\ [i \in 1..Len(req.rows) |-> req.rows[i].original_language]
       = <<PyStr("en"), PyStr("cn"), PyStr("xx"), PyNone>>
  /\ req.out_rows = <<[id |-> 1, original_language |-> PyStr("en")],
                      [id |-> 2, original_language |-> PyStr("zh")]>>

\* the ids the entries of one content type were given by their rankings
RecommendedFor(r, type) ==
  UNION {Range(req[r].log[e].list) :
           e \in {k \in 1..Len(req[r].log) : req[r].watchlist[k].type = type}}

\* the ids of the watchlist entries of one content type
WatchlistIdsFor(r, type) ==
  {Format(req[r].watchlist[w].id) :
     w \in {k \in 1..Len(req[r].watchlist) : req[r].watchlist[k].type = type}}

\* C28: exclusion and deduplication of the watchlist endpoint compare bare
\* ids: an id recommended for an entry of any type is removed when its
\* text is the id text of a watchlist entry of any type, the other content
\* type included, and an id recommended both as a movie and as a show is
\* in the output list once.
C28_BareIdsAcrossTypes ==
  \A r \in Slots :
    req[r].endpoint = "watchlist" /\ Succeeded(r) =>
      LET filtered == req[r].filtered_recommendations
      IN /\ \A e \in 1..Len(req[r].log), w \in 1..Len(req[r].watchlist) :
              \A id \in Range(req[r].log[e].list) :
                ToString(id) = Format(req[r].watchlist[w].id) =>
                  id \notin Range(filtered)
         /\ \A id \in RecommendedFor(r, "movie") \cap RecommendedFor(r, "tv") :
              Cardinality({k \in 1..Len(filtered) : filtered[k] = id})
                = IF \E w \in 1..Len(req[r].watchlist) :
                          ToString(id) = Format(req[r].watchlist[w].id)
                  THEN 0 ELSE 1

\* a movie id was removed that only a tv entry of the watchlist names, and
\* an id recommended as a movie and as a show is in the response once
C28_Witness ==
  \E r \in Slots :
    /\ req[r].endpoint = "watchlist" /\ Succeeded(r)
    /\ \E id \in RecommendedFor(r, "movie") :
         /\ ToString(id) \in WatchlistIdsFor(r, "tv")
         /\ ToString(id) \notin WatchlistIdsFor(r, "movie")
         /\ id \notin RecommendedFor(r, "tv")
         /\ id \notin Range(req[r].filtered_recommendations)
    /\ \E id \in RecommendedFor(r, "movie") \cap RecommendedFor(r, "tv") :
         Cardinality({k \in 1..Len(req[r].response.recommendations) :
                        req[r].response.recommendations[k] = id}) = 1

====
